---------------------------- MODULE Spec2Model ----------------------------
(***************************************************************************)
(* A model of the better-neotext modal editor: the VecBuffer text store,   *)
(* the Cursor and ShadowCursor components, the ViewPort's scroll state and *)
(* the Editor's event loop (decode -> resolve -> enqueue -> drain ->       *)
(* delegate with bound checking).                                          *)
(*                                                                         *)
(* Conventions.  Strings are sequences of one-character strings; a plane   *)
(* is a sequence of such lines.  Positions are 0-based as in the source    *)
(* (LineCol), so line l of a plane p is p[l + 1].  A fallible operation    *)
(* returns a record whose field st is "Ok", "Err" (a Result::Err, with the *)
(* Error variant in err) or "Panic" (an index out of range, an unwrap of   *)
(* None, ...).                                                             *)
(***************************************************************************)
EXTENDS Integers, Sequences, FiniteSets, TLC

\* ------------------------------------------------------------------------
\* Bounds of the model
\* ------------------------------------------------------------------------

\* Number of key events read by the event loop in one run.
MaxKeys == 4

\* Number of TextBuffer operations applied in a run of SpecBuffer.
MaxCalls == 1

\* ------------------------------------------------------------------------
\* Program constants
\* ------------------------------------------------------------------------

JUMP_DIST == 25

\* Capacity of an undo/redo Stack.
StackCap == 1000

\* ------------------------------------------------------------------------
\* Characters
\* ------------------------------------------------------------------------

\* The characters typed into a plane (Insert, Command and Find mode) and
\* given as the second key of f/F/t/T/r/p/P: two alphanumerics, a white
\* space and the two command prefixes (neither alphanumeric nor white).
TextChars == {"a", "q", " ", "/", "?"}

is_whitespace(ch) == ch = " "

is_alphanumeric(ch) == ch \in {"a", "b", "q", "z"}

\* ------------------------------------------------------------------------
\* LineCol
\* ------------------------------------------------------------------------

LC(l, c) == [line |-> l, col |-> c]

\* PartialOrd for LineCol: lexicographic on (line, col).
LcLess(a, b) == a.line < b.line \/ (a.line = b.line /\ a.col < b.col)

LcLeq(a, b) == a = b \/ LcLess(a, b)

\* ------------------------------------------------------------------------
\* Strings (0-based, half-open ranges)
\* ------------------------------------------------------------------------

Min(a, b) == IF a < b THEN a ELSE b

\* s[a..b)
Slice(s, a, b) == SubSeq(s, a + 1, b)

\* String::insert(idx, ch)
StrInsert(s, idx, ch) == Slice(s, 0, idx) \o <<ch>> \o Slice(s, idx, Len(s))

\* Vec::insert(idx, el) and Vec::remove(idx)
VecInsert(v, idx, el) == Slice(v, 0, idx) \o <<el>> \o Slice(v, idx, Len(v))

\* Vec::drain(a..=b) : what is left
VecDrain(v, a, b) == Slice(v, 0, a) \o Slice(v, b + 1, Len(v))

\* v with element idx replaced
VecSet(v, idx, el) == [v EXCEPT ![idx + 1] = el]

\* Does pat occur in s at index i?
OccursAt(s, pat, i) == i + Len(pat) <= Len(s) /\ Slice(s, i, i + Len(pat)) = pat

\* str::find(pat) : the least index of an occurrence, -1 for None.
StrFind(s, pat) ==
    LET hits == {i \in 0..Len(s) : OccursAt(s, pat, i)}
    IN  IF hits = {} THEN -1 ELSE CHOOSE i \in hits : \A j \in hits : i <= j

\* str::rfind(pat) : the greatest index of an occurrence, -1 for None.
StrRfind(s, pat) ==
    LET hits == {i \in 0..Len(s) : OccursAt(s, pat, i)}
    IN  IF hits = {} THEN -1 ELSE CHOOSE i \in hits : \A j \in hits : i >= j

\* ------------------------------------------------------------------------
\* Results
\* ------------------------------------------------------------------------

Ok(v) == [st |-> "Ok", err |-> "", val |-> v]

Err(e, v) == [st |-> "Err", err |-> e, val |-> v]

Panic(v) == [st |-> "Panic", err |-> "panic", val |-> v]

NoLC == LC(0, 0)


\* Option<LineCol>
None == [some |-> FALSE, line |-> 0, col |-> 0]

Some(lc) == [some |-> TRUE, line |-> lc.line, col |-> lc.col]

Unwrap(o) == LC(o.line, o.col)

\* ------------------------------------------------------------------------
\* Pattern (common.rs)
\* ------------------------------------------------------------------------

\* A pattern is a literal string ([kind |-> "str", s |-> ...]; a char pattern
\* is the one-character string) or a character predicate
\* ([kind |-> "pred", p |-> name]).
StrPat(str) == [kind |-> "str", s |-> str, p |-> ""]

PredPat(name) == [kind |-> "pred", s |-> <<>>, p |-> name]

\* The four closures resolve_action passes to jump_two_boundaries.
Pred(name, ch) ==
    CASE name = "whitespace" -> is_whitespace(ch)
      [] name = "not_whitespace" -> ~is_whitespace(ch)
      [] name = "word_char" -> is_alphanumeric(ch) \/ ch = "_"
      [] name = "symbol_char" -> ~is_alphanumeric(ch) /\ ch # "_" /\ ~is_whitespace(ch)

\* chars().position(p): index of the first character satisfying p, -1 for None.
CharsPosition(line, name) ==
    LET hits == {i \in 0..(Len(line) - 1) : Pred(name, line[i + 1])}
    IN  IF hits = {} THEN -1 ELSE CHOOSE i \in hits : \A j \in hits : i <= j

\* chars().rev().position(p): distance of the last character satisfying p
\* from the end of the line (0 for the last character), -1 for None.
CharsRevPosition(line, name) ==
    LET hits == {r \in 0..(Len(line) - 1) : Pred(name, line[Len(line) - r])}
    IN  IF hits = {} THEN -1 ELSE CHOOSE r \in hits : \A j \in hits : r <= j

\* The column a pattern's forward search reports in one line, -1 for None.
LineFind(pat, line) ==
    IF pat.kind = "str" THEN StrFind(line, pat.s) ELSE CharsPosition(line, pat.p)

\* The column a pattern's reverse search reports in one line, -1 for None:
\* str::rfind for a string, line.len() - rcol for a predicate.
LineRfind(pat, line) ==
    IF pat.kind = "str"
    THEN StrRfind(line, pat.s)
    ELSE IF CharsRevPosition(line, pat.p) = -1
         THEN -1
         ELSE Len(line) - CharsRevPosition(line, pat.p)

\* haystack.iter().enumerate().find_map(...)
find_pattern(pat, haystack) ==
    LET hits == {l \in 0..(Len(haystack) - 1) : LineFind(pat, haystack[l + 1]) # -1}
    IN  IF hits = {}
        THEN None
        ELSE LET l == CHOOSE x \in hits : \A y \in hits : x <= y
             IN  Some(LC(l, LineFind(pat, haystack[l + 1])))

\* haystack.iter().enumerate().rev().find_map(...)
rfind_pattern(pat, haystack) ==
    LET hits == {l \in 0..(Len(haystack) - 1) : LineRfind(pat, haystack[l + 1]) # -1}
    IN  IF hits = {}
        THEN None
        ELSE LET l == CHOOSE x \in hits : \A y \in hits : x >= y
             IN  Some(LC(l, LineRfind(pat, haystack[l + 1])))

\* ------------------------------------------------------------------------
\* Stack and StateCapsule (buffer.rs)
\* ------------------------------------------------------------------------

StateCapsule(content, loc) == [content |-> content, loc |-> loc]

\* push_front, then truncate to the newest StackCap elements.
StackPush(stack, el) ==
    LET pushed == <<el>> \o stack
    IN  IF Len(pushed) > StackCap THEN SubSeq(pushed, 1, StackCap) ELSE pushed

\* ------------------------------------------------------------------------
\* VecBuffer (buffer.rs)
\* ------------------------------------------------------------------------

\* VecBuffer::new(text)
VecBufferNew(content) ==
    [text |-> content, terminal |-> << <<>> >>, command |-> << <<>> >>,
     past |-> <<>>, future |-> <<>>, plane |-> "Normal"]

get_buffer(b) ==
    CASE b.plane = "Normal" -> b.text
      [] b.plane = "Terminal" -> b.terminal
      [] b.plane = "Command" -> b.command

\* get_mut_buffer, as the assignment of a new content to the active plane.
set_buffer(b, lines) ==
    CASE b.plane = "Normal" -> [b EXCEPT !.text = lines]
      [] b.plane = "Terminal" -> [b EXCEPT !.terminal = lines]
      [] b.plane = "Command" -> [b EXCEPT !.command = lines]

IsCommandMode(modal) == modal \in {"Command", "FindForwards", "FindBackwards"}

\* A set_plane that sends the Find modes to the Normal plane.
set_plane_find_is_text(b, modal) ==
    [b EXCEPT !.plane = IF modal = "Command" THEN "Command" ELSE "Normal"]

set_plane(b, modal) ==
    [b EXCEPT !.plane = IF IsCommandMode(modal) THEN "Command" ELSE "Normal"]

\* len().saturating_sub(1) of the Normal plane, whatever plane is active.
max_line(b) == IF Len(b.text) = 0 THEN 0 ELSE Len(b.text) - 1

\* max_col(at) indexes the ACTIVE plane: it panics unless MaxColDefined.
MaxColDefined(b, at) == at >= 0 /\ at < Len(get_buffer(b))

max_col(b, at) == Len(get_buffer(b)[at + 1])

\* max_linecol: buf.len() - 1 underflows on an empty Normal plane (a panic
\* in a debug build, and an index out of range after the wrap in release).
MaxLineColDefined(b) == Len(b.text) > 0

max_linecol(b) == LC(Len(b.text) - 1, Len(b.text[Len(b.text)]))

\* get_command_text: &self.command[0]
CommandTextDefined(b) == Len(b.command) > 0

get_command_text(b) == b.command[1]

clear_command(b) == [b EXCEPT !.command = << <<>> >>]

insert_newline(b, at) ==
    IF at.line + 1 > Len(get_buffer(b))
    THEN Panic(b)
    ELSE Ok(set_buffer(b, VecInsert(get_buffer(b), at.line + 1, <<>>)))

\* The bound test is at.line > len (not >=): at.line = len passes it and the
\* index that follows panics.
insert(b, at, ch) ==
    LET buf == get_buffer(b)
    IN  IF at.line > Len(buf) THEN Err("InvalidPosition", b)
        ELSE IF at.line >= Len(buf) THEN Panic(b)
        ELSE IF at.col > Len(buf[at.line + 1]) THEN Err("InvalidPosition", b)
        ELSE Ok(set_buffer(b, VecSet(buf, at.line, StrInsert(buf[at.line + 1], at.col, ch))))

delete_selection(b, from, to) ==
    LET buf == get_buffer(b)
    IN  IF \/ from.line >= Len(buf)
           \/ to.line >= Len(buf)
           \/ (from.line = to.line /\ from.col > to.col)
           \/ from.line > to.line
           \/ from = to
        THEN Err("InvalidRange", b)
        ELSE IF from.col = 0 /\ to.col >= Len(buf[to.line + 1])
        THEN Ok(set_buffer(b, VecDrain(buf, from.line, to.line)))
        ELSE IF from.line = to.line
        THEN LET line == buf[from.line + 1]
             IN  IF from.col = 0 /\ to.col >= Len(line)
                 THEN Ok(set_buffer(b, VecDrain(buf, from.line, from.line)))
                 ELSE IF to.col >= Len(line)
                 THEN Ok(set_buffer(b, VecSet(buf, from.line,
                                              Slice(line, 0, Min(from.col, Len(line))))))
                 ELSE Ok(set_buffer(b, VecSet(buf, from.line,
                                              Slice(line, 0, from.col)
                                                \o Slice(line, to.col, Len(line)))))
        ELSE IF to.col > Len(buf[to.line + 1])
        THEN Panic(b)
        ELSE LET end_line_tail == Slice(buf[to.line + 1], to.col, Len(buf[to.line + 1]))
                 head == Slice(buf[from.line + 1], 0, Min(from.col, Len(buf[from.line + 1])))
             IN  Ok(set_buffer(b, VecDrain(VecSet(buf, from.line, head \o end_line_tail),
                                           from.line + 1, to.line)))

\* str::lines(): the pieces between line feeds; a line feed at the end of
\* the string ends the last line and starts no further one.
RECURSIVE StrLines(_)
StrLines(s) ==
    IF s = <<>> THEN <<>>
    ELSE IF \A i \in 1..Len(s) : s[i] # "\n" THEN <<s>>
    ELSE LET i == CHOOSE i \in 1..Len(s) : s[i] = "\n" /\ \A j \in 1..(i - 1) : s[j] # "\n"
         IN  <<SubSeq(s, 1, i - 1)>> \o StrLines(SubSeq(s, i + 1, Len(s)))

\* [String].join("\n")
RECURSIVE Join(_)
Join(lines) ==
    IF lines = <<>> THEN <<>>
    ELSE IF Len(lines) = 1 THEN lines[1]
    ELSE lines[1] \o <<"\n">> \o Join(Tail(lines))

\* The lines get_text maps the range from.line..=to.line to.
GetTextLines(buf, from, to) ==
    [i \in 1..(to.line - from.line + 1) |->
        IF i = 1 THEN Slice(buf[from.line + 1], from.col, Len(buf[from.line + 1]))
        ELSE IF i - 1 = to.line - from.line THEN Slice(buf[to.line + 1], 0, to.col)
        ELSE buf[from.line + i]]

\* get_text(from, to): the text of a range, its lines joined by line feeds.
get_text(b, from, to) ==
    LET buf == get_buffer(b)
    IN  IF \/ from.line > to.line
           \/ (from.line = to.line /\ from.col > to.col)
           \/ from.line >= Len(buf)
           \/ to.line >= Len(buf)
           \/ from.col > Len(buf[from.line + 1])
           \/ to.col > Len(buf[to.line + 1])
        THEN Err("InvalidRange", <<>>)
        ELSE IF from.line = to.line
        THEN Ok(Slice(buf[from.line + 1], from.col, to.col))
        ELSE Ok(Join(GetTextLines(buf, from, to)))

\* The slices and the splice of replace are defined (they panic otherwise).
ReplaceDefined(buf, from, to) ==
    /\ from.line < Len(buf)
    /\ to.line < Len(buf)
    /\ from.col <= Len(buf[from.line + 1])
    /\ to.col <= Len(buf[to.line + 1])
    /\ from.line <= to.line + 1

\* new_lines of replace: start and the first line of the text, the other
\* lines of the text, and the rest of line to.line pushed onto the last.
ReplaceLines(start, lines, rest) ==
    IF lines = <<>> THEN <<start \o rest>>
    ELSE IF Len(lines) = 1 THEN <<start \o lines[1] \o rest>>
    ELSE <<start \o lines[1]>> \o SubSeq(lines, 2, Len(lines) - 1)
           \o <<lines[Len(lines)] \o rest>>

\* replace(from, to, text): splice(from.line..=to.line, new_lines)
replace(b, from, to, text) ==
    LET buf == get_buffer(b)
    IN  IF text = <<>> THEN Err("InvalidInput", b)
        ELSE IF ~ReplaceDefined(buf, from, to) THEN Panic(b)
        ELSE Ok(set_buffer(b, Slice(buf, 0, from.line)
                                \o ReplaceLines(Slice(buf[from.line + 1], 0, from.col),
                                                StrLines(text),
                                                Slice(buf[to.line + 1], to.col,
                                                      Len(buf[to.line + 1])))
                                \o Slice(buf, to.line + 1, Len(buf))))

\* insert_text without newline: the line is split at at.col, the first line
\* of the text goes onto its head and the tail onto the last line.
InsertTextSplice(buf, at, lines) ==
    Slice(buf, 0, at.line)
      \o ReplaceLines(Slice(buf[at.line + 1], 0, at.col), lines,
                      Slice(buf[at.line + 1], at.col, Len(buf[at.line + 1])))
      \o Slice(buf, at.line + 1, Len(buf))

\* insert_text(at, text, newline): the new buffer and the position returned.
insert_text(b, at, text, newline) ==
    LET buf == get_buffer(b)
    IN  IF at.line >= Len(buf) THEN Err("InvalidPosition", [buffer |-> b, pos |-> at])
        ELSE IF at.col > Len(buf[at.line + 1])
        THEN Err("InvalidPosition", [buffer |-> b, pos |-> at])
        ELSE IF text = <<>> THEN Err("InvalidInput", [buffer |-> b, pos |-> at])
        ELSE IF newline
        THEN Ok([buffer |-> set_buffer(b, Slice(buf, 0, at.line + 1) \o StrLines(text)
                                            \o Slice(buf, at.line + 1, Len(buf))),
                 pos |-> LC(at.line + 1, 0)])
        ELSE Ok([buffer |-> set_buffer(b, InsertTextSplice(buf, at, StrLines(text))),
                 pos |-> at])

\* A delete that takes the character at at.col.
delete_at_col(b, at) ==
    LET buf == get_buffer(b)
    IN  IF at.line >= Len(buf) THEN Err("InvalidPosition", [buffer |-> b, pos |-> at])
        ELSE IF at.col >= Len(buf[at.line + 1])
        THEN Err("InvalidPosition", [buffer |-> b, pos |-> at])
        ELSE Ok([buffer |-> set_buffer(b, VecSet(buf, at.line,
                                                 Slice(buf[at.line + 1], 0, at.col)
                                                   \o Slice(buf[at.line + 1], at.col + 1,
                                                            Len(buf[at.line + 1])))),
                 pos |-> at])

\* delete(at): the character before at.col is removed; at column 0 the line
\* is joined onto the line before.  The new buffer and the position returned.
delete(b, at) ==
    LET buf == get_buffer(b)
    IN  IF at.line >= Len(buf) THEN Err("InvalidPosition", [buffer |-> b, pos |-> at])
        ELSE IF at.col > Len(buf[at.line + 1])
        THEN Err("InvalidPosition", [buffer |-> b, pos |-> at])
        ELSE IF at.col = 0
        THEN IF at.line = 0 THEN Err("ImATeacup", [buffer |-> b, pos |-> at])
             ELSE Ok([buffer |-> set_buffer(b, VecDrain(VecSet(buf, at.line - 1,
                                                               buf[at.line] \o buf[at.line + 1]),
                                                        at.line, at.line)),
                      pos |-> LC(at.line - 1, Len(buf[at.line]))])
        ELSE Ok([buffer |-> set_buffer(b, VecSet(buf, at.line,
                                                 Slice(buf[at.line + 1], 0, at.col - 1)
                                                   \o Slice(buf[at.line + 1], at.col,
                                                            Len(buf[at.line + 1])))),
                 pos |-> LC(at.line, at.col - 1)])

\* An undo that installs the past text and forgets the current one.
undo_forgetting_present(b, at) ==
    IF Len(b.past) = 0
    THEN Err("NowhereToGo", b)
    ELSE Ok([b EXCEPT !.text = Head(b.past).content, !.past = Tail(b.past)])

\* An undo that succeeds with nothing to go to, pushing the current text
\* onto future.
undo_from_empty_past(b, at) ==
    IF Len(b.past) = 0
    THEN Ok([b EXCEPT !.future = StackPush(b.future, StateCapsule(b.text, at))])
    ELSE Ok([b EXCEPT !.text = Head(b.past).content,
                      !.past = Tail(b.past),
                      !.future = StackPush(b.future, StateCapsule(b.text, at))])

\* undo(at): pop past, install it, push the current text onto future.
undo(b, at) ==
    IF Len(b.past) = 0
    THEN Err("NowhereToGo", b)
    ELSE Ok([b EXCEPT !.text = Head(b.past).content,
                      !.past = Tail(b.past),
                      !.future = StackPush(b.future, StateCapsule(b.text, at))])

\* redo(at): pop future, install it, push the current text onto past.
redo(b, at) ==
    IF Len(b.future) = 0
    THEN Err("NowhereToGo", b)
    ELSE Ok([b EXCEPT !.text = Head(b.future).content,
                      !.future = Tail(b.future),
                      !.past = StackPush(b.past, StateCapsule(b.text, at))])

\* get_buffer_window(from, to) over the Normal plane; from and to are
\* Option<LineCol>.
get_buffer_window(b, from, to) ==
    IF ~from.some /\ ~to.some THEN Ok(b.text)
    ELSE IF ~to.some /\ ~MaxLineColDefined(b) THEN Panic(<<>>)
    ELSE LET f == IF from.some THEN Unwrap(from) ELSE LC(0, 0)
             t0 == IF to.some THEN Unwrap(to) ELSE max_linecol(b)
             t == LC(Min(max_line(b), t0.line), t0.col)
         IN  IF f.line > t.line \/ (f.line = t.line /\ f.col > t.col)
             THEN Err("InvalidInput", <<>>)
             ELSE IF t.line >= Len(b.text) THEN Panic(<<>>)
             ELSE IF f.col > Len(b.text[f.line + 1]) THEN Panic(<<>>)
             ELSE IF f.line = t.line /\ t.col > Len(b.text[f.line + 1]) THEN Panic(<<>>)
             ELSE LET vec == Slice(b.text, f.line, t.line + 1)
                      first == Slice(vec[1], f.col, Len(vec[1]))
                      vec1 == [vec EXCEPT ![1] = first]
                      last == Len(vec1)
                      vec2 == IF f.line = t.line
                              THEN [vec1 EXCEPT ![last] = Slice(vec1[last], 0, t.col - f.col)]
                              ELSE [vec1 EXCEPT ![last] =
                                        Slice(vec1[last], 0, Min(t.col, Len(vec1[last])))]
                  IN  IF t.col = 0 THEN Ok(SubSeq(vec2, 1, last - 1)) ELSE Ok(vec2)

\* The buffer as a Component: which primitives it executes.  InsertAt takes
\* the position with clone_inner (an unwrap: a panic on an unevaluated
\* lazy), the three others with verify_lazy_values (ProgrammingBug).
Buffer_execute_action(b, a) ==
    CASE a.t = "InsertAt" ->
            IF ~a.lazy.ev THEN Panic(b) ELSE insert(b, LC(a.lazy.line, a.lazy.col), a.ch)
      [] a.t = "DeleteAt" ->
            IF ~a.lazy.ev THEN Err("ProgrammingBug", b)
            ELSE delete_selection(b, LC(a.lazy.line, a.lazy.col),
                                  LC(a.lazy.line, a.lazy.col + a.n))
      [] a.t = "DeleteLineAt" ->
            IF ~a.lazy.ev THEN Err("ProgrammingBug", b)
            ELSE delete_selection(b, LC(a.lazy.line, a.lazy.col),
                                  LC(a.lazy.line + a.n, a.lazy.col))
      [] a.t = "InsertLineAt" ->
            IF ~a.lazy.ev THEN Err("ProgrammingBug", b)
            ELSE insert_newline(b, LC(a.lazy.line, a.lazy.col))
      [] a.t = "ChangeMode" -> Ok(set_plane(b, a.m))
      [] OTHER -> Ok(b)

\* ------------------------------------------------------------------------
\* Cursor and ShadowCursor (cursor.rs)
\* ------------------------------------------------------------------------

\* Cursor::default()
CursorDefault ==
    [pos |-> LC(0, 0), previous_pos |-> LC(0, 0), pos_initial |-> LC(0, 0),
     plane |-> "Text", last_text_mode_pos |-> LC(0, 0)]

go(c, to) == [c EXCEPT !.previous_pos = c.pos, !.pos = to]

set_line(c, new) == [c EXCEPT !.previous_pos = c.pos, !.pos = LC(new, c.pos.col)]

set_col(c, new) == [c EXCEPT !.previous_pos = c.pos, !.pos = LC(c.pos.line, new)]

bump_left(c) ==
    [c EXCEPT !.previous_pos = c.pos,
              !.pos = IF c.pos.col # 0 THEN LC(c.pos.line, c.pos.col - 1) ELSE c.pos]

bump_right(c) == [c EXCEPT !.previous_pos = c.pos, !.pos = LC(c.pos.line, c.pos.col + 1)]

bump_up(c) == [c EXCEPT !.pos = IF c.pos.line # 0 THEN LC(c.pos.line - 1, c.pos.col) ELSE c.pos]

bump_down(c) == [c EXCEPT !.previous_pos = c.pos, !.pos = LC(c.pos.line + 1, c.pos.col)]

\* Cursor::mod_change(modal)
mod_change(c, modal) ==
    LET c1 == IF c.plane = "Text"
              THEN [c EXCEPT !.last_text_mode_pos =
                                 IF modal = "VisualLine" THEN LC(c.pos.line, 0) ELSE c.pos,
                             !.previous_pos = c.pos]
              ELSE c
        c2 == IF IsCommandMode(modal)
              THEN [c1 EXCEPT !.plane = "CommandBar", !.pos = LC(0, 0)]
              ELSE [c1 EXCEPT !.plane = "Text", !.pos = c1.last_text_mode_pos]
    IN  [c2 EXCEPT !.pos_initial = c2.pos]

\* A cursor that carries out MoveUp, MoveDown, MoveLeft and MoveRight itself,
\* by the distance given: stopping at 0, with no bound at the other end.
Cursor_moves_unchecked(c, a) ==
    CASE a.t = "MoveUp" -> set_line(c, IF c.pos.line >= a.n THEN c.pos.line - a.n ELSE 0)
      [] a.t = "MoveDown" -> set_line(c, c.pos.line + a.n)
      [] a.t = "MoveLeft" -> set_col(c, IF c.pos.col >= a.n THEN c.pos.col - a.n ELSE 0)
      [] a.t = "MoveRight" -> set_col(c, c.pos.col + a.n)
      [] a.t = "SetCursor" -> go(c, a.lc)
      [] OTHER -> c

\* impl Component for Cursor.  The arms name the intents BumpUp, BumpDown,
\* BumpLeft, BumpRight, JumpUp, JumpDown, JumpSOL, JumpSOF and the primitive
\* SetCursor; a primitive of any other name (MoveUp(n), MoveDown(n),
\* MoveLeft(n), MoveRight(n), ChangeMode(m), ...) takes the `_ => ()` arm.
\* jump_up and jump_down are usize arithmetic on the line and are inlined.
Cursor_execute_action(c, a) ==
    CASE a.t = "BumpUp" -> bump_up(c)
      [] a.t = "BumpDown" -> bump_down(c)
      [] a.t = "BumpLeft" -> bump_left(c)
      [] a.t = "BumpRight" -> bump_right(c)
      [] a.t = "JumpUp" -> set_line(c, c.pos.line - JUMP_DIST)
      [] a.t = "JumpDown" -> set_line(c, c.pos.line + JUMP_DIST)
      [] a.t = "JumpSOL" -> set_col(c, 0)
      [] a.t = "JumpSOF" -> set_line(c, 0)
      [] a.t = "SetCursor" -> go(c, a.lc)
      [] OTHER -> c

\* An update that leaves the shadow cursor where it was.
ShadowCursor_update_stale(sc, lc) == sc

\* ShadowCursor::update(lc)
ShadowCursor_update(sc, lc) == [line |-> lc.line, col |-> lc.col]

\* impl Component for ShadowCursor: the same intent names (with the line
\* growing on BumpUp/JumpUp), SetCursor, and `_ => ()` for the rest.
ShadowCursor_execute_action(sc, a) ==
    CASE a.t = "BumpUp" -> [sc EXCEPT !.line = sc.line + 1]
      [] a.t = "BumpDown" -> [sc EXCEPT !.line = sc.line - 1]
      [] a.t = "BumpLeft" -> [sc EXCEPT !.col = sc.col - 1]
      [] a.t = "BumpRight" -> [sc EXCEPT !.col = sc.col + 1]
      [] a.t = "JumpUp" -> [sc EXCEPT !.line = sc.line + JUMP_DIST]
      [] a.t = "JumpDown" -> [sc EXCEPT !.line = sc.line - JUMP_DIST]
      [] a.t = "SetCursor" -> ShadowCursor_update(sc, a.lc)
      [] OTHER -> sc

\* ------------------------------------------------------------------------
\* ViewPort (viewport.rs)
\* ------------------------------------------------------------------------

\* Height of the terminal read by ViewPort::default().
TermHeight == 24

ViewPortDefault == [top_border |-> 0, bottom_border |-> TermHeight, mode |-> "Normal"]

scroll_up(v, dist) ==
    LET actual_move == IF v.top_border >= dist THEN dist ELSE v.top_border
    IN  [v EXCEPT !.top_border = v.top_border - actual_move,
                  !.bottom_border = v.bottom_border - actual_move]

scroll_down(v, dist) ==
    [v EXCEPT !.bottom_border = v.bottom_border + dist, !.top_border = v.top_border + dist]

\* impl Component for ViewPort.  The arms are tried in the order written:
\* ChangeMode, then `_`, so the MoveUp and MoveDown arms that follow the
\* wildcard are never taken.
ViewPort_execute_action(v, a) ==
    CASE a.t = "ChangeMode" -> [v EXCEPT !.mode = a.m]
      [] OTHER -> v

\* ------------------------------------------------------------------------
\* BaseAction, Action, Command, Lazy (common.rs, editor.rs)
\* ------------------------------------------------------------------------

\* Lazy::new() and Lazy::with_inner(v)
LazyNew == [ev |-> FALSE, line |-> 0, col |-> 0]

LazyWith(lc) == [ev |-> TRUE, line |-> lc.line, col |-> lc.col]

\* A primitive: the variant name t and the fields the variant carries (n: the
\* repeat count or distance, lc, m: a mode, lazy, ch: a character/register).
BaseAction(t) == [t |-> t, n |-> 0, lc |-> NoLC, m |-> "", lazy |-> LazyNew, ch |-> ""]

MoveUp(n) == [BaseAction("MoveUp") EXCEPT !.n = n]

MoveDown(n) == [BaseAction("MoveDown") EXCEPT !.n = n]

MoveLeft(n) == [BaseAction("MoveLeft") EXCEPT !.n = n]

MoveRight(n) == [BaseAction("MoveRight") EXCEPT !.n = n]

SetCursor(lc) == [BaseAction("SetCursor") EXCEPT !.lc = lc]

ChangeMode(m) == [BaseAction("ChangeMode") EXCEPT !.m = m]

InsertAt(lazy, ch) == [BaseAction("InsertAt") EXCEPT !.lazy = lazy, !.ch = ch]

InsertLineAt(lazy, n) == [BaseAction("InsertLineAt") EXCEPT !.lazy = lazy, !.n = n]

DeleteAt(lazy, n) == [BaseAction("DeleteAt") EXCEPT !.lazy = lazy, !.n = n]

DeleteLineAt(lazy, n) == [BaseAction("DeleteLineAt") EXCEPT !.lazy = lazy, !.n = n]

Paste(reg, n) == [BaseAction("Paste") EXCEPT !.ch = reg, !.n = n]

UndoPrim(n) == [BaseAction("Undo") EXCEPT !.n = n]

RedoPrim(n) == [BaseAction("Redo") EXCEPT !.n = n]

Nothing == BaseAction("Nothing")

\* BaseAction::get_repeater: the variants that carry a repeat count.
HasRepeater(a) ==
    a.t \in {"MoveUp", "MoveDown", "MoveLeft", "MoveRight", "Undo", "Redo",
             "DeleteAt", "DeleteLineAt", "Paste"}

\* BaseAction::repeat(x)
repeat(a, x) == IF HasRepeater(a) THEN [a EXCEPT !.n = a.n * x] ELSE a

\* An intent: the variant name t and its fields (ch, m: a mode, cmd and s:
\* the Command of ExecuteCommand and its search string).
Action(t) == [t |-> t, ch |-> "", m |-> "", cmd |-> "", s |-> <<>>]

ActCh(t, ch) == [Action(t) EXCEPT !.ch = ch]

ActChangeMode(m) == [Action("ChangeMode") EXCEPT !.m = m]

ActExecuteCommand(cmd, str) == [Action("ExecuteCommand") EXCEPT !.cmd = cmd, !.s = str]

ActFind(t, str) == [Action(t) EXCEPT !.s = str]

\* ------------------------------------------------------------------------
\* Editor: the parts of its state the components and the resolver use
\* ------------------------------------------------------------------------

\* Editor::new(buff, _)
EditorNew(buff) ==
    [buffer |-> buff, viewport |-> ViewPortDefault, modal |-> "Normal",
     cursor |-> CursorDefault, shadow |-> [line |-> 0, col |-> 0]]

\* No evaluation: the primitive is handed on as it was enqueued.
compute_lazy_values_skipped(e, a) == a

\* An evaluation that takes the position the cursor had before its last
\* move.
compute_lazy_values_stale(e, a) ==
    IF a.t \in {"InsertAt", "DeleteAt", "InsertLineAt", "DeleteLineAt"} /\ ~a.lazy.ev
    THEN [a EXCEPT !.lazy = LazyWith(e.cursor.previous_pos)]
    ELSE a

\* lazy_eval! over the four variants that carry a Lazy<LineCol>.
compute_lazy_values(e, a) ==
    IF a.t \in {"InsertAt", "DeleteAt", "InsertLineAt", "DeleteLineAt"} /\ ~a.lazy.ev
    THEN [a EXCEPT !.lazy = LazyWith(e.cursor.pos)]
    ELSE a

\* A delegation that goes on to the viewport, the cursor and the shadow
\* cursor after the buffer returned an error, and then returns that error.
DelegateThroughError(e, a, rb) ==
    [rb EXCEPT !.val = [e EXCEPT !.buffer = rb.val,
                                 !.viewport = ViewPort_execute_action(e.viewport, a),
                                 !.cursor = Cursor_execute_action(e.cursor, a),
                                 !.shadow = ShadowCursor_execute_action(e.shadow, a),
                                 !.executed = @ \o <<"buffer", "viewport", "cursor",
                                                     "shadow">>]]

\* delegate_action after the buffer has executed the primitive (rb is its
\* result): `?` returns at the buffer's error, else the viewport, the
\* cursor and the shadow cursor execute it (the extensions vector is empty).
DelegateAfterBuffer(e, a, rb) ==
    IF rb.st # "Ok"
    THEN [rb EXCEPT !.val = [e EXCEPT !.buffer = rb.val,
                                      !.executed = Append(@, "buffer")]]
    ELSE Ok([e EXCEPT !.buffer = rb.val,
                      !.viewport = ViewPort_execute_action(e.viewport, a),
                      !.cursor = Cursor_execute_action(e.cursor, a),
                      !.shadow = ShadowCursor_execute_action(e.shadow, a),
                      !.executed = @ \o <<"buffer", "viewport", "cursor", "shadow">>])

\* delegate_action with the lazy position of the primitive evaluated.
DelegateEvaluated(e, a) == DelegateAfterBuffer(e, a, Buffer_execute_action(e.buffer, a))

\* delegate_action(action)
delegate_action(e, a) == DelegateEvaluated(e, compute_lazy_values(e, a))

\* for a in actions { self.delegate_action(&a)? }
RECURSIVE DelegateEach(_, _)
RECURSIVE DelegateRest(_, _)
DelegateEach(e, as) ==
    IF as = <<>> THEN Ok(e) ELSE DelegateRest(delegate_action(e, Head(as)), Tail(as))

DelegateRest(r, rest) == IF r.st # "Ok" THEN r ELSE DelegateEach(r.val, rest)

\* A map that shifts the match by the window's column on every line.
FoundForward_every_line_shifted(target, at) ==
    IF ~target.some THEN Err("PatternNotFound", NoLC)
    ELSE Ok(LC(target.line + at.line, target.col + at.col))

\* The map at the end of Editor::find: a match on the first line of the
\* window is shifted by the column the window starts at.
FoundForward(target, at) ==
    IF ~target.some THEN Err("PatternNotFound", NoLC)
    ELSE Ok(LC(target.line + at.line,
               IF target.line = 0 THEN target.col + at.col ELSE target.col))

FindInWindow(w, pat, at) ==
    IF w.st # "Ok" THEN [w EXCEPT !.val = NoLC] ELSE FoundForward(find_pattern(pat, w.val), at)

\* Editor::find(query, at)
find(e, pat, at) == FindInWindow(get_buffer_window(e.buffer, Some(at), None), pat, at)

FoundBackward(target) ==
    IF ~target.some THEN Err("PatternNotFound", NoLC) ELSE Ok(LC(target.line, target.col))

RfindInWindow(w, pat) ==
    IF w.st # "Ok" THEN [w EXCEPT !.val = NoLC] ELSE FoundBackward(rfind_pattern(pat, w.val))

\* Editor::rfind(query, at)
rfind(e, pat, at) == RfindInWindow(get_buffer_window(e.buffer, None, Some(at)), pat)

\* resolve_find: r is what find_fn(pattern, cursor.pos) returned.
resolve_find(e, r) ==
    IF r.st = "Ok" THEN Ok(SetCursor(r.val))
    ELSE IF r.st = "Err" /\ r.err = "PatternNotFound" THEN Ok(SetCursor(e.cursor.pos))
    ELSE [r EXCEPT !.val = Nothing]

\* Cursor::text_mode_col(), called by calculate_jump_actions: the column of
\* the remembered text-plane position.
text_mode_col(c) == c.last_text_mode_pos.col

\* TextBuffer::max_normal_col(line), called by jump_two_boundaries: the
\* length of a line of the Normal plane (an index, so it panics out of it).
MaxNormalColDefined(b, at) == at < Len(b.text)

max_normal_col(b, at) == Len(b.text[at + 1])

\* jump_two_boundaries, Forward arm, from the first boundary d1 on.
JumpForwardSecond(d2) ==
    IF d2.st = "Err" /\ d2.err = "PatternNotFound" THEN Ok(Nothing)
    ELSE IF d2.st # "Ok" THEN [d2 EXCEPT !.val = Nothing]
    ELSE Ok(SetCursor(d2.val))

JumpForwardFirst(e, d1, second_boundary) ==
    IF d1.st = "Err" /\ d1.err = "PatternNotFound" THEN Ok(Nothing)
    ELSE IF d1.st # "Ok" THEN [d1 EXCEPT !.val = Nothing]
    ELSE JumpForwardSecond(find(e, PredPat(second_boundary), d1.val))

\* jump_two_boundaries, Backward arm: both rfind results are taken with `?`.
JumpBackwardSecond(d2) ==
    IF d2.st # "Ok" THEN [d2 EXCEPT !.val = Nothing] ELSE Ok(SetCursor(d2.val))

JumpBackwardFirst(e, d1, second_boundary) ==
    IF d1.st # "Ok" THEN [d1 EXCEPT !.val = Nothing]
    ELSE JumpBackwardSecond(rfind(e, PredPat(second_boundary), d1.val))

\* The position jump_two_boundaries searches from: last_text_mode_pos, one
\* column further when the line is longer than that.
JumpStart(b, p0) ==
    IF max_normal_col(b, p0.line) > p0.col THEN LC(p0.line, p0.col + 1) ELSE p0

jump_two_boundaries(e, direction, first_boundary, second_boundary) ==
    IF ~MaxNormalColDefined(e.buffer, e.cursor.last_text_mode_pos.line) THEN Panic(Nothing)
    ELSE IF direction = "Forward"
    THEN JumpForwardFirst(e, find(e, PredPat(first_boundary),
                                  JumpStart(e.buffer, e.cursor.last_text_mode_pos)),
                          second_boundary)
    ELSE JumpBackwardFirst(e, rfind(e, PredPat(first_boundary),
                                    JumpStart(e.buffer, e.cursor.last_text_mode_pos)),
                           second_boundary)

calculate_jump_actions(e, target) ==
    LET from == e.cursor.last_text_mode_pos
        vertical == IF from.line < target.line THEN <<MoveDown(target.line - from.line)>>
                    ELSE IF from.line > target.line THEN <<MoveUp(from.line - target.line)>>
                    ELSE <<>>
    IN  Ok(<<ChangeMode("Normal"), MoveLeft(text_mode_col(e.cursor))>>
             \o vertical \o <<MoveRight(target.col)>>)

\* The match on the search result in resolve_command_action (Find, Rfind).
CommandJump(e, lc) ==
    IF lc.st = "Err" /\ lc.err = "PatternNotFound" THEN Ok(<<ChangeMode("Normal")>>)
    ELSE IF lc.st = "Ok" THEN calculate_jump_actions(e, lc.val)
    ELSE [lc EXCEPT !.val = <<>>]

resolve_command_action(e, cmd, str) ==
    CASE cmd = "Exit" -> Err("ExitCall", <<>>)
      [] cmd = "None" -> Ok(<<ChangeMode("Normal")>>)
      [] cmd = "Find" -> CommandJump(e, find(e, StrPat(str), e.cursor.last_text_mode_pos))
      [] cmd = "Rfind" -> CommandJump(e, rfind(e, StrPat(str), e.cursor.last_text_mode_pos))

\* ok_vec![one primitive] around a fallible single primitive
OkVec1(r) == IF r.st = "Ok" THEN Ok(<<r.val>>) ELSE [r EXCEPT !.val = <<>>]

\* actions.push(primitive) on a resolved vector
PushPrim(r, prim) == IF r.st # "Ok" THEN r ELSE Ok(Append(r.val, prim))

\* The arms of resolve_action for Find and ReverseFind; FindChar and
\* ReverseFindChar resolve Find / ReverseFind of the one-character string.
ResolveFind(e, str) == OkVec1(resolve_find(e, find(e, StrPat(str), e.cursor.pos)))

ResolveReverseFind(e, str) == OkVec1(resolve_find(e, rfind(e, StrPat(str), e.cursor.pos)))

\* resolve_action: the primitives of an intent.  max_col indexes the active
\* plane with the cursor's line (a panic out of it); max_col - col in
\* InsertModeEOL is a usize subtraction, which panics or wraps when
\* col > max_col depending on the build's overflow checks: the run ends
\* there with the status "Underflow", whichever of the two it is.
resolve_action(e, act) ==
    LET line == e.cursor.pos.line
        col == e.cursor.pos.col
    IN
    CASE act.t = "Nothing" -> Ok(<<>>)
      [] act.t = "Quit" -> Err("ExitCall", <<>>)
      [] act.t = "BumpUp" -> Ok(<<MoveUp(1)>>)
      [] act.t = "BumpDown" -> Ok(<<MoveDown(1)>>)
      [] act.t = "BumpLeft" -> Ok(<<MoveLeft(1)>>)
      [] act.t = "BumpRight" -> Ok(<<MoveRight(1)>>)
      [] act.t = "JumpUp" -> Ok(<<MoveUp(JUMP_DIST)>>)
      [] act.t = "JumpDown" -> Ok(<<MoveDown(JUMP_DIST)>>)
      [] act.t = "JumpSOL" -> Ok(<<MoveLeft(col)>>)
      [] act.t = "JumpEOL" ->
            IF ~MaxColDefined(e.buffer, line) THEN Panic(<<>>)
            ELSE Ok(<<MoveLeft(col), MoveRight(max_col(e.buffer, line))>>)
      [] act.t = "JumpSOF" -> Ok(<<MoveUp(line)>>)
      [] act.t = "JumpEOF" -> Ok(<<MoveUp(line), MoveDown(max_line(e.buffer))>>)
      [] act.t = "JumpToNextWord" ->
            OkVec1(jump_two_boundaries(e, "Forward", "whitespace", "not_whitespace"))
      [] act.t = "JumpToNextSymbol" ->
            OkVec1(jump_two_boundaries(e, "Forward", "word_char", "symbol_char"))
      [] act.t = "ReverseJumpToNextWord" ->
            OkVec1(jump_two_boundaries(e, "Backward", "whitespace", "not_whitespace"))
      [] act.t = "ReverseJumpToNextSymbol" ->
            OkVec1(jump_two_boundaries(e, "Backward", "word_char", "symbol_char"))
      [] act.t = "Find" -> ResolveFind(e, act.s)
      [] act.t = "ReverseFind" -> ResolveReverseFind(e, act.s)
      [] act.t = "FindChar" -> ResolveFind(e, <<act.ch>>)
      [] act.t = "ReverseFindChar" -> ResolveReverseFind(e, <<act.ch>>)
      [] act.t = "ToChar" -> PushPrim(ResolveFind(e, <<act.ch>>), MoveLeft(1))
      [] act.t = "ReverseToChar" -> PushPrim(ResolveReverseFind(e, <<act.ch>>), MoveRight(1))
      [] act.t = "ChangeMode" -> Ok(<<ChangeMode(act.m)>>)
      [] act.t = "InsertModeEOL" ->
            IF ~MaxColDefined(e.buffer, line) THEN Panic(<<>>)
            ELSE IF max_col(e.buffer, line) < col THEN Err("Underflow", <<>>)
            ELSE Ok(<<MoveRight(max_col(e.buffer, line) - col), ChangeMode("Insert")>>)
      [] act.t = "InsertModeBelow" -> Ok(<<MoveDown(1), ChangeMode("Insert")>>)
      [] act.t = "InsertModeAbove" -> Ok(<<MoveUp(1), ChangeMode("Insert")>>)
      [] act.t = "Save" -> Ok(<<BaseAction("Save")>>)
      [] act.t = "Yank" -> Ok(<<BaseAction("Yank")>>)
      [] act.t = "Redo" -> Ok(<<RedoPrim(1)>>)
      [] act.t = "DeleteAtCursor" -> Ok(<<DeleteAt(LazyNew, 1)>>)
      [] act.t = "Replace" -> Ok(<<DeleteAt(LazyNew, 1), InsertAt(LazyNew, act.ch)>>)
      [] act.t = "DeleteBeforeCursor" -> Ok(<<MoveLeft(1), DeleteAt(LazyNew, 1)>>)
      [] act.t = "Undo" -> Ok(<<UndoPrim(1)>>)
      [] act.t = "InsertCharAtCursor" -> Ok(<<InsertAt(LazyNew, act.ch), MoveRight(1)>>)
      [] act.t = "Paste" -> Ok(<<Paste(act.ch, 1)>>)
      [] act.t = "PasteAbove" -> Ok(<<Paste(act.ch, 1)>>)
      [] act.t = "PasteNewline" -> Ok(<<MoveDown(1), Paste(act.ch, 1)>>)
      [] act.t = "OpenFile" -> Ok(<<BaseAction("OpenFile")>>)
      [] act.t = "InsertNewLine" -> Ok(<<InsertLineAt(LazyNew, 1), MoveDown(1)>>)
      [] act.t = "FetchFromHistory" -> Ok(<<BaseAction("FetchFromHistory")>>)
      [] act.t = "ExecuteCommand" -> resolve_command_action(e, act.cmd, act.s)

\* for a in actions { self.delegate_action(&a)? } over a clamp's primitives
ClampDelegate(e, r) == IF r.st # "Ok" THEN [r EXCEPT !.val = e] ELSE DelegateEach(e, r.val)

\* One bound of delegate_action_bound_checked: the shadow cursor is rewound
\* on the axis, the clamping intent is resolved and each of its primitives
\* delegated.
RewindShadow(e, axis) ==
    [e EXCEPT !.shadow = IF axis = "line"
                         THEN [e.shadow EXCEPT !.line = e.cursor.pos.line]
                         ELSE [e.shadow EXCEPT !.col = e.cursor.pos.col]]

ClampRewound(e, intent) == ClampDelegate(e, resolve_action(e, Action(intent)))

Clamp(e, axis, intent) == ClampRewound(RewindShadow(e, axis), intent)

\* Line bound checking: the shadow cursor has executed the primitive.
LineBound(e) ==
    IF e.shadow.line > max_line(e.buffer) THEN Clamp(e, "line", "JumpEOF")
    ELSE IF e.shadow.line < 0 THEN Clamp(e, "line", "JumpSOF")
    ELSE Ok(e)

\* Column bound checking; max_col indexes the active plane with the shadow
\* cursor's line.
ColBound(e) ==
    IF ~MaxColDefined(e.buffer, e.shadow.line) THEN Panic(e)
    ELSE IF e.shadow.col > max_col(e.buffer, e.shadow.line) THEN Clamp(e, "col", "JumpEOL")
    ELSE IF e.shadow.col < 0 THEN Clamp(e, "col", "JumpSOL")
    ELSE Ok(e)

ColAltered(e) ==
    /\ MaxColDefined(e.buffer, e.shadow.line)
    /\ (e.shadow.col > max_col(e.buffer, e.shadow.line) \/ e.shadow.col < 0)

\* `if !altered { self.delegate_action(action)? }`
BoundCheckedEnd(r, altered, a) ==
    IF r.st # "Ok" THEN r
    ELSE IF ~altered THEN delegate_action(r.val, a)
    ELSE r

\* After the line bound: a vertical move that was not altered is applied to
\* the real cursor in advance, then the column bound is checked.
BoundCheckedCol(e, altered, a) == BoundCheckedEnd(ColBound(e), altered \/ ColAltered(e), a)

BoundCheckedAdvance(r, lineAltered, a) ==
    IF r.st # "Ok" THEN r
    ELSE IF a.t \in {"MoveUp", "MoveDown"} /\ ~lineAltered
    THEN BoundCheckedCol([r.val EXCEPT !.cursor = Cursor_execute_action(r.val.cursor, a),
                                       !.executed = Append(@, "cursor")],
                         TRUE, a)
    ELSE BoundCheckedCol(r.val, lineAltered, a)

BoundCheckedLine(e, a) ==
    BoundCheckedAdvance(LineBound(e), e.shadow.line > max_line(e.buffer) \/ e.shadow.line < 0, a)

\* delegate_action_bound_checked(action), for a Move primitive.
delegate_action_bound_checked(e, a) ==
    BoundCheckedLine([e EXCEPT !.shadow = ShadowCursor_execute_action(e.shadow, a),
                               !.executed = Append(@, "shadow")], a)

\* perform_action(action)
perform_action(e, a) ==
    IF a.t \in {"MoveUp", "MoveDown", "MoveLeft", "MoveRight"}
    THEN delegate_action_bound_checked(e, a)
    ELSE IF a.t = "ChangeMode"
    THEN delegate_action([e EXCEPT !.modal = a.m], a)
    ELSE delegate_action(e, a)

\* ------------------------------------------------------------------------
\* Key events and their decoding (editor.rs)
\* ------------------------------------------------------------------------

Key(code, ch, mod) == [code |-> code, ch |-> ch, mod |-> mod]

\* The characters bound in Normal mode, and one that is not ("a").
NormalChars ==
    {"k", "j", "h", "l", "W", "w", "B", "b", "_", "$", "g", "G", "i", "v", "V", ":",
     "A", "/", "?", "o", "O", "X", "x", "u", "f", "F", "t", "T", "r", "p", "P", "a"}

SpecialCodes == {"Enter", "Esc", "Backspace", "Left", "Right", "Up", "Down", "Home", "End"}

\* The key events the model reads in a given state: every binding of the
\* mode, and for a character that is only data (typed text, the second key
\* of a two-key sequence) a character of TextChars.
KeysFor(modal, previous_key) ==
    IF modal = "Normal" /\ previous_key = ""
    THEN {Key("Char", c, "NONE") : c \in NormalChars}
           \cup {Key("Char", c, "CONTROL") : c \in {"u", "d", "r"}}
           \cup {Key(c, "", "NONE") : c \in {"Home", "End", "Esc"}}
    ELSE IF modal = "Normal"
    THEN {Key("Char", c, "NONE") : c \in TextChars} \cup {Key("Esc", "", "NONE")}
    ELSE IF modal \in {"Visual", "VisualLine"}
    THEN {Key("Esc", "", "NONE"), Key("Char", "a", "NONE")}
    ELSE {Key("Char", c, "NONE") : c \in TextChars}
           \cup {Key(c, "", "NONE") : c \in SpecialCodes \ {"End"}}

\* interpret_normal_event with the latch set (previous_key.take() = Some(prev))
LatchedAction(prev, k) ==
    IF k.code # "Char" THEN Action("Nothing")
    ELSE CASE prev = "t" -> ActCh("FindChar", k.ch)
           [] prev = "T" -> ActCh("ReverseFindChar", k.ch)
           [] prev = "f" -> ActCh("FindChar", k.ch)
           [] prev = "F" -> ActCh("ReverseFindChar", k.ch)
           [] prev = "r" -> ActCh("Replace", k.ch)
           [] prev = "p" -> ActCh("Paste", k.ch)
           [] prev = "P" -> ActCh("PasteAbove", k.ch)
           [] OTHER -> Action("Nothing")

\* interpret_normal_event with no latch: the match on (code, modifiers).  An
\* upper-case letter is matched with NONE | SHIFT, except 'O' (NONE only).
UnlatchedAction(k) ==
    LET none == k.mod = "NONE"
        shift == k.mod \in {"NONE", "SHIFT"}
        ctrl == k.mod = "CONTROL"
        c == k.ch
    IN
    IF k.code = "Home" /\ none THEN Action("JumpSOL")
    ELSE IF k.code = "End" /\ none THEN Action("JumpEOL")
    ELSE IF k.code # "Char" THEN Action("Nothing")
    ELSE CASE c = "k" /\ none -> Action("BumpUp")
           [] c = "j" /\ none -> Action("BumpDown")
           [] c = "h" /\ none -> Action("BumpLeft")
           [] c = "l" /\ none -> Action("BumpRight")
           [] c = "u" /\ ctrl -> Action("JumpUp")
           [] c = "d" /\ ctrl -> Action("JumpDown")
           [] c = "W" /\ shift -> Action("JumpToNextWord")
           [] c = "w" /\ none -> Action("JumpToNextSymbol")
           [] c = "B" /\ shift -> Action("ReverseJumpToNextWord")
           [] c = "b" /\ none -> Action("ReverseJumpToNextSymbol")
           [] c = "_" /\ none -> Action("JumpSOL")
           [] c = "$" /\ none -> Action("JumpEOL")
           [] c = "g" /\ none -> Action("JumpSOF")
           [] c = "G" /\ shift -> Action("JumpEOF")
           [] c = "i" /\ none -> ActChangeMode("Insert")
           [] c = "v" /\ none -> ActChangeMode("Visual")
           [] c = "V" /\ shift -> ActChangeMode("VisualLine")
           [] c = ":" /\ none -> ActChangeMode("Command")
           [] c = "A" /\ shift -> Action("InsertModeEOL")
           [] c = "/" /\ none -> ActChangeMode("FindForwards")
           [] c = "?" /\ none -> ActChangeMode("FindBackwards")
           [] c = "o" /\ none -> Action("InsertModeBelow")
           [] c = "O" /\ none -> Action("InsertModeAbove")
           [] c = "X" /\ shift -> Action("DeleteBeforeCursor")
           [] c = "x" /\ none -> Action("DeleteAtCursor")
           [] c = "u" /\ none -> Action("Undo")
           [] c = "r" /\ ctrl -> Action("Redo")
           [] OTHER -> Action("Nothing")

\* The latch an unlatched key leaves: set by a character that no binding
\* took and that starts a two-key sequence.
LatchAfter(k) ==
    IF /\ k.code = "Char"
       /\ UnlatchedAction(k).t = "Nothing"
       /\ k.ch \in {"f", "F", "t", "T", "p", "P", "r"}
    THEN k.ch
    ELSE ""

interpret_normal_event(previous_key, k) ==
    IF previous_key # ""
    THEN [action |-> LatchedAction(previous_key, k), previous_key |-> ""]
    ELSE [action |-> UnlatchedAction(k), previous_key |-> LatchAfter(k)]

interpret_insert_event(k) ==
    CASE k.code = "Char" -> ActCh("InsertCharAtCursor", k.ch)
      [] k.code = "Enter" -> Action("InsertNewLine")
      [] k.code = "Esc" -> ActChangeMode("Normal")
      [] k.code = "Backspace" -> Action("DeleteBeforeCursor")
      [] k.code = "Left" -> Action("BumpLeft")
      [] k.code = "Right" -> Action("BumpRight")
      [] k.code = "Up" -> Action("BumpUp")
      [] k.code = "Down" -> Action("BumpDown")
      [] OTHER -> Action("Nothing")

\* A parse in which no command text means Exit.
parse_out_command_never_exits(buf) ==
    IF Len(buf) = 0 THEN ActExecuteCommand("None", <<>>)
    ELSE IF Head(buf) = "/" THEN ActExecuteCommand("Find", Tail(buf))
    ELSE IF Head(buf) = "?" THEN ActExecuteCommand("Rfind", Tail(buf))
    ELSE ActExecuteCommand("None", <<>>)

\* parse_out_command over the command text buf
parse_out_command(buf) ==
    IF Len(buf) = 0 THEN ActExecuteCommand("None", <<>>)
    ELSE IF Head(buf) = "/" THEN ActExecuteCommand("Find", Tail(buf))
    ELSE IF Head(buf) = "?" THEN ActExecuteCommand("Rfind", Tail(buf))
    ELSE IF buf = <<"q">> THEN ActExecuteCommand("Exit", <<>>)
    ELSE ActExecuteCommand("None", <<>>)

interpret_command_event(b, k) ==
    CASE k.code = "Enter" -> parse_out_command(get_command_text(b))
      [] k.code = "Char" -> ActCh("InsertCharAtCursor", k.ch)
      [] k.code = "Up" -> Action("BumpUp")
      [] k.code = "Down" -> Action("BumpDown")
      [] k.code = "Backspace" -> Action("DeleteBeforeCursor")
      [] k.code = "Left" -> Action("BumpLeft")
      [] k.code = "Right" -> Action("BumpRight")
      [] k.code = "Esc" -> ActChangeMode("Normal")
      [] OTHER -> Action("Nothing")

\* An enqueue that assigns the pending count to a single primitive.
Enqueued_count_assigned(base_actions, repeat_action) ==
    IF Len(base_actions) = 1 /\ HasRepeater(base_actions[1])
    THEN <<[base_actions[1] EXCEPT !.n = repeat_action]>>
    ELSE base_actions

\* add_to_action_queue: what is pushed onto the queue for the resolved
\* primitives (a single primitive is repeated when repeat_action # 1).
Enqueued(base_actions, repeat_action) ==
    IF Len(base_actions) = 1 /\ repeat_action # 1
    THEN <<repeat(base_actions[1], repeat_action)>>
    ELSE base_actions

\* ------------------------------------------------------------------------
\* The event loop (Editor::run_event_loop) as a state machine
\* ------------------------------------------------------------------------

VARIABLES
    buffer,         \* Editor.buffer : VecBuffer
    viewport,       \* Editor.viewport : top_border, bottom_border, mode
    modal,          \* Editor.modal
    cursor,         \* Editor.cursor
    shadow_cursor,  \* Editor.shadow_cursor
    previous_key,   \* Editor.previous_key ("" for None)
    repeat_action,  \* Editor.repeat_action
    action_queue,   \* Editor.action_queue
    actions,        \* the drained vector consume_action_queue iterates over
    pc,             \* position in the loop body: "top", "read", "consume", "perform"
    status,         \* "running", or how run_event_loop ended: an Error variant or "Panic"
    nevents,        \* number of key events read so far
    last_action,    \* history: the intent decoded from the last key event
    resolved,       \* history: the primitives the resolver returned for it
    performed,      \* history: the primitives perform_action completed for it
    pre,            \* history: the editor when the last key event was read
    round_trip,     \* history: progress through insert, Escape, undo, redo
    call,           \* the last TextBuffer operation applied directly to the buffer
    executed        \* history: the components that executed the primitive performed
                    \* last, in the order of their execute_action calls

vars ==
    <<buffer, viewport, modal, cursor, shadow_cursor, previous_key, repeat_action,
      action_queue, actions, pc, status, nevents, last_action, resolved, performed, pre,
      round_trip, call, executed>>

\* The editor the operators above work on.
Ed ==
    [buffer |-> buffer, viewport |-> viewport, modal |-> modal, cursor |-> cursor,
     shadow |-> shadow_cursor, executed |-> <<>>]

\* The editor as a key event finds it, with the key latched by the event
\* before (history).
Snapshot ==
    [buffer |-> buffer, viewport |-> viewport, modal |-> modal, cursor |-> cursor,
     shadow |-> shadow_cursor, latch |-> previous_key]

\* Assignment of an editor value to the next state.
SetEd(e) ==
    /\ buffer' = e.buffer
    /\ viewport' = e.viewport
    /\ modal' = e.modal
    /\ cursor' = e.cursor
    /\ shadow_cursor' = e.shadow
    /\ executed' = e.executed

\* How a failed Result ends run_event_loop.
EndOf(r) == IF r.st = "Panic" THEN "Panic" ELSE r.err

\* No TextBuffer operation has been applied directly (the event loop applies
\* none that way).
NoCall ==
    [op |-> "none", at |-> NoLC, to |-> NoLC, text |-> <<>>, newline |-> FALSE,
     pred |-> "", st |-> "Ok", err |-> "", pos |-> NoLC, out |-> <<>>, found |-> None,
     before |-> <<>>, n |-> 0, prim |-> Nothing]

\* History of the keystrokes Insert, one character, Escape, undo, redo: the
\* stage reached, the Normal plane before the character was typed and the
\* Normal plane when Escape was pressed.  Any other intent starts over.
NoRoundTrip == [stage |-> "none", before |-> <<>>, after |-> <<>>]

RoundTripNext(rt, act, text) ==
    IF act.t = "ChangeMode" /\ act.m = "Insert" /\ modal = "Normal"
    THEN [NoRoundTrip EXCEPT !.stage = "insert"]
    ELSE IF rt.stage = "insert" /\ act.t = "InsertCharAtCursor"
    THEN [rt EXCEPT !.stage = "typed", !.before = text]
    ELSE IF rt.stage = "typed" /\ act.t = "ChangeMode" /\ act.m = "Normal"
    THEN [rt EXCEPT !.stage = "escaped", !.after = text]
    ELSE IF rt.stage = "escaped" /\ act.t = "Undo"
    THEN [rt EXCEPT !.stage = "undone"]
    ELSE IF rt.stage = "undone" /\ act.t = "Redo"
    THEN [rt EXCEPT !.stage = "redone"]
    ELSE NoRoundTrip

\* Contents of the file the editor is started on: the blank buffer of a
\* start without a file (one line holding a space), a two-line text with
\* words, white space and a symbol, three lines of length 10, and a line of
\* three words.
BlankText == << <<" ">> >>

SmallText == << <<"a", " ", "q">>, <<"/", "a">> >>

TenText ==
    << <<"b", "b", "b", "b", "b", "b", "b", "b", "b", "b">>,
       <<"b", "b", "b", "b", "b", "b", "b", "b", "b", "b">>,
       <<"b", "b", "b", "b", "b", "q", "b", "b", "b", "b">> >>

WordsText == << <<"a", " ", "q", " ", "a">> >>

InitTexts == {BlankText, SmallText, TenText, WordsText}

\* main: initialize_editor, then run_event_loop is entered.
Init ==
    /\ \E content \in InitTexts : buffer = VecBufferNew(content)
    /\ viewport = ViewPortDefault
    /\ modal = "Normal"
    /\ cursor = CursorDefault
    /\ shadow_cursor = [line |-> 0, col |-> 0]
    /\ previous_key = ""
    /\ repeat_action = 1
    /\ action_queue = <<>>
    /\ actions = <<>>
    /\ pc = "top"
    /\ status = "running"
    /\ nevents = 0
    /\ last_action = Action("Nothing")
    /\ resolved = <<>>
    /\ performed = <<>>
    /\ pre = Snapshot
    /\ round_trip = NoRoundTrip
    /\ call = NoCall
    /\ executed = <<>>

\* Top of the loop body: get_command_text() (command[0]) and the redraw.
LoopTop ==
    /\ status = "running"
    /\ pc = "top"
    /\ IF CommandTextDefined(buffer)
       THEN pc' = "read" /\ status' = status
       ELSE pc' = pc /\ status' = "Panic"
    /\ last_action' = Action("Nothing")
    /\ resolved' = <<>>
    /\ performed' = <<>>
    /\ pre' = Snapshot
    /\ UNCHANGED <<buffer, viewport, modal, cursor, shadow_cursor, previous_key,
                   repeat_action, action_queue, actions, nevents, round_trip, call,
                   executed>>

\* event::read() in Visual or VisualLine mode: `_ => continue`.
ReadKeyIgnored ==
    /\ status = "running"
    /\ pc = "read"
    /\ nevents < MaxKeys
    /\ modal \in {"Visual", "VisualLine"}
    /\ \E k \in KeysFor(modal, previous_key) : nevents' = nevents + 1
    /\ pc' = "top"
    /\ UNCHANGED <<buffer, viewport, modal, cursor, shadow_cursor, previous_key,
                   repeat_action, action_queue, actions, status, last_action, resolved,
                   performed, pre, round_trip, call, executed>>

\* The mode's interpret_*_event for key event k.
Decode(k) ==
    IF modal = "Normal" THEN interpret_normal_event(previous_key, k)
    ELSE IF modal = "Insert"
    THEN [action |-> interpret_insert_event(k), previous_key |-> previous_key]
    ELSE [action |-> interpret_command_event(buffer, k), previous_key |-> previous_key]

\* add_to_action_queue, r being what resolve_action returned: `?` ends the
\* loop on an error, else the primitives are pushed onto the queue.
AddToActionQueue(r) ==
    IF r.st = "Ok"
    THEN /\ resolved' = r.val
         /\ action_queue' = action_queue \o Enqueued(r.val, repeat_action)
         /\ pc' = "consume"
         /\ status' = status
    ELSE /\ resolved' = <<>>
         /\ action_queue' = action_queue
         /\ pc' = pc
         /\ status' = EndOf(r)

\* The intent decoded from the key event: action_history.push(action), then
\* add_to_action_queue(action).
Decoded(i) ==
    /\ previous_key' = i.previous_key
    /\ last_action' = i.action
    /\ round_trip' = RoundTripNext(round_trip, i.action, buffer.text)
    /\ AddToActionQueue(resolve_action(Ed, i.action))

\* event::read(), the mode's interpret_*_event, action_history.push and
\* add_to_action_queue.
ReadKey ==
    /\ status = "running"
    /\ pc = "read"
    /\ nevents < MaxKeys
    /\ modal \notin {"Visual", "VisualLine"}
    /\ \E k \in KeysFor(modal, previous_key) : Decoded(Decode(k))
    /\ nevents' = nevents + 1
    /\ pre' = Snapshot
    /\ performed' = <<>>
    /\ UNCHANGED <<buffer, viewport, modal, cursor, shadow_cursor, repeat_action, actions,
                   call, executed>>

\* A drain that takes the queue from the back.
DrainFromBack ==
    /\ status = "running"
    /\ pc = "consume"
    /\ actions' = [i \in 1..Len(action_queue) |-> action_queue[Len(action_queue) + 1 - i]]
    /\ action_queue' = <<>>
    /\ pc' = "perform"
    /\ UNCHANGED <<buffer, viewport, modal, cursor, shadow_cursor, previous_key,
                   repeat_action, status, nevents, last_action, resolved, performed, pre,
                   round_trip, call, executed>>

\* consume_action_queue: action_queue.drain(..).collect()
Drain ==
    /\ status = "running"
    /\ pc = "consume"
    /\ actions' = action_queue
    /\ action_queue' = <<>>
    /\ pc' = "perform"
    /\ UNCHANGED <<buffer, viewport, modal, cursor, shadow_cursor, previous_key,
                   repeat_action, status, nevents, last_action, resolved, performed, pre,
                   round_trip, call, executed>>

\* perform_action returned r: `?` ends the loop on an error.
Performed(r) ==
    /\ SetEd(r.val)
    /\ IF r.st = "Ok"
       THEN /\ actions' = Tail(actions)
            /\ performed' = Append(performed, Head(actions))
            /\ status' = status
       ELSE /\ actions' = actions
            /\ performed' = performed
            /\ status' = EndOf(r)

\* One turn of `for action in actions { self.perform_action(action)?; }`
Perform ==
    /\ status = "running"
    /\ pc = "perform"
    /\ actions # <<>>
    /\ Performed(perform_action(Ed, Head(actions)))
    /\ UNCHANGED <<previous_key, repeat_action, action_queue, pc, nevents, last_action,
                   resolved, pre, round_trip, call>>

\* The queue is drained: self.shadow_cursor.update(self.cursor.pos), and the
\* loop body starts over.
EndIteration ==
    /\ status = "running"
    /\ pc = "perform"
    /\ actions = <<>>
    /\ shadow_cursor' = ShadowCursor_update(shadow_cursor, cursor.pos)
    /\ pc' = "top"
    /\ UNCHANGED <<buffer, viewport, modal, cursor, previous_key, repeat_action,
                   action_queue, actions, status, nevents, last_action, resolved,
                   performed, pre, round_trip, call, executed>>

Next ==
    \/ LoopTop
    \/ ReadKeyIgnored
    \/ ReadKey
    \/ Drain
    \/ Perform
    \/ EndIteration

Spec == Init /\ [][Next]_vars

\* ------------------------------------------------------------------------
\* The TextBuffer operations applied to a buffer (trait TextBuffer)
\* ------------------------------------------------------------------------

\* Contents the operations are applied to: the blank buffer, the two-line
\* text, three lines with an empty one between, and an empty plane.
GapText == << <<"a", "b">>, <<>>, <<"q">> >>

BufferTexts == {BlankText, SmallText, GapText, <<>>}

\* Arguments: every position of the plane, one column past the end of each
\* line and two lines past the last; the characters and the texts passed.
Positions(buf) ==
    UNION {{LC(l, c) : c \in 0..(IF l < Len(buf) THEN Len(buf[l + 1]) + 1 ELSE 0)} :
              l \in 0..(Len(buf) + 1)}

InsertChars == {"a", " "}

TextArgs == {<<>>, <<"q">>, <<"\n">>, <<"q", "\n">>, <<"q", "\n", "a">>}

PredArgs == {"whitespace", "not_whitespace", "word_char", "symbol_char"}

\* The record of an operation applied to the buffer: its arguments, how it
\* returned (r) and the active plane before it.
Called(op, at, to, text, r) ==
    [NoCall EXCEPT !.op = op, !.at = at, !.to = to, !.text = text, !.st = r.st,
                   !.err = r.err, !.before = get_buffer(buffer), !.n = call.n + 1]

\* A future stack filled to its capacity by StackCap pushes.
FullStack ==
    [i \in 1..StackCap |->
        StateCapsule(IF i = StackCap THEN SmallText ELSE BlankText, LC(0, 0))]

\* Undo and redo stacks that Stack::push has filled: with one or two
\* capsules, and the future stack to capacity.
StackArgs ==
    {[past |-> <<StateCapsule(GapText, LC(2, 0)), StateCapsule(BlankText, LC(0, 0))>>,
      future |-> <<StateCapsule(SmallText, LC(1, 1))>>],
     [past |-> <<StateCapsule(SmallText, LC(0, 2))>>, future |-> FullStack]}

\* The buffers an operation is applied to: every content with the empty
\* stacks VecBuffer::new gives it, and the blank content with filled stacks.
BufferArgs ==
    {VecBufferNew(content) : content \in BufferTexts}
      \cup {[VecBufferNew(BlankText) EXCEPT !.past = stacks.past,
                                           !.future = stacks.future] :
               stacks \in StackArgs}

\* The editor's variables an operation on the buffer leaves alone.
loop_vars ==
    <<viewport, modal, cursor, shadow_cursor, previous_key, repeat_action, action_queue,
      actions, pc, status, nevents, last_action, resolved, performed, pre, round_trip,
      executed>>

\* A buffer of BufferArgs, the rest of the editor as Editor::new makes it.
InitBuffer ==
    /\ buffer \in BufferArgs
    /\ viewport = ViewPortDefault
    /\ modal = "Normal"
    /\ cursor = CursorDefault
    /\ shadow_cursor = [line |-> 0, col |-> 0]
    /\ previous_key = ""
    /\ repeat_action = 1
    /\ action_queue = <<>>
    /\ actions = <<>>
    /\ pc = "top"
    /\ status = "running"
    /\ nevents = 0
    /\ last_action = Action("Nothing")
    /\ resolved = <<>>
    /\ performed = <<>>
    /\ pre = Snapshot
    /\ round_trip = NoRoundTrip
    /\ call = NoCall
    /\ executed = <<>>

Inserted(at, ch, r) ==
    /\ buffer' = r.val
    /\ call' = Called("insert", at, NoLC, <<ch>>, r)

CallInsert ==
    /\ call.n < MaxCalls
    /\ \E at \in Positions(get_buffer(buffer)), ch \in InsertChars :
          Inserted(at, ch, insert(buffer, at, ch))
    /\ UNCHANGED loop_vars

Deleted(at, r) ==
    /\ buffer' = r.val.buffer
    /\ call' = [Called("delete", at, NoLC, <<>>, r) EXCEPT !.pos = r.val.pos]

CallDelete ==
    /\ call.n < MaxCalls
    /\ \E at \in Positions(get_buffer(buffer)) : Deleted(at, delete(buffer, at))
    /\ UNCHANGED loop_vars

GotText(from, to, r) ==
    /\ buffer' = buffer
    /\ call' = [Called("get_text", from, to, <<>>, r) EXCEPT !.out = r.val]

CallGetText ==
    /\ call.n < MaxCalls
    /\ \E from \in Positions(get_buffer(buffer)), to \in Positions(get_buffer(buffer)) :
          GotText(from, to, get_text(buffer, from, to))
    /\ UNCHANGED loop_vars

Replaced(from, to, text, r) ==
    /\ buffer' = r.val
    /\ call' = Called("replace", from, to, text, r)

CallReplace ==
    /\ call.n < MaxCalls
    /\ \E from \in Positions(get_buffer(buffer)), to \in Positions(get_buffer(buffer)),
          text \in TextArgs :
          Replaced(from, to, text, replace(buffer, from, to, text))
    /\ UNCHANGED loop_vars

InsertedText(at, text, newline, r) ==
    /\ buffer' = r.val.buffer
    /\ call' = [Called("insert_text", at, NoLC, text, r) EXCEPT !.pos = r.val.pos,
                                                                !.newline = newline]

CallInsertText ==
    /\ call.n < MaxCalls
    /\ \E at \in Positions(get_buffer(buffer)), text \in TextArgs, newline \in BOOLEAN :
          InsertedText(at, text, newline, insert_text(buffer, at, text, newline))
    /\ UNCHANGED loop_vars

DeletedSelection(from, to, r) ==
    /\ buffer' = r.val
    /\ call' = Called("delete_selection", from, to, <<>>, r)

CallDeleteSelection ==
    /\ call.n < MaxCalls
    /\ \E from \in Positions(get_buffer(buffer)), to \in Positions(get_buffer(buffer)) :
          DeletedSelection(from, to, delete_selection(buffer, from, to))
    /\ UNCHANGED loop_vars

\* pattern.find_pattern(haystack) and pattern.rfind_pattern(haystack) for a
\* character predicate, the haystack being the lines of the plane.
CallFindPattern ==
    /\ call.n < MaxCalls
    /\ \E p \in PredArgs :
          call' = [Called("find_pattern", NoLC, NoLC, <<>>, Ok(<<>>)) EXCEPT
                      !.pred = p, !.found = find_pattern(PredPat(p), get_buffer(buffer))]
    /\ UNCHANGED <<buffer, loop_vars>>

CallRfindPattern ==
    /\ call.n < MaxCalls
    /\ \E p \in PredArgs :
          call' = [Called("rfind_pattern", NoLC, NoLC, <<>>, Ok(<<>>)) EXCEPT
                      !.pred = p, !.found = rfind_pattern(PredPat(p), get_buffer(buffer))]
    /\ UNCHANGED <<buffer, loop_vars>>

\* The primitives handed to a component: every Move by 0, 1, 2 and
\* JUMP_DIST, a SetCursor, a ChangeMode, an edit and Nothing.
PrimArgs ==
    UNION {{MoveUp(n), MoveDown(n), MoveLeft(n), MoveRight(n)} : n \in {0, 1, 2, JUMP_DIST}}
      \cup {SetCursor(LC(1, 2)), ChangeMode("Insert"), ChangeMode("Command"),
            DeleteAt(LazyWith(LC(0, 0)), 1), Nothing}

\* The record of a component executing primitive a: the component's state
\* before it in `before`.
Executed(op, a, before) ==
    [NoCall EXCEPT !.op = op, !.prim = a, !.before = before, !.n = call.n + 1]

\* viewport.execute_action(a)
CallViewPortExecute ==
    /\ call.n < MaxCalls
    /\ \E a \in PrimArgs :
          /\ viewport' = ViewPort_execute_action(viewport, a)
          /\ call' = Executed("viewport", a, viewport)
    /\ UNCHANGED <<buffer, modal, cursor, shadow_cursor, previous_key, repeat_action,
                   action_queue, actions, pc, status, nevents, last_action, resolved,
                   performed, pre, round_trip, executed>>

\* shadow_cursor.execute_action(a)
CallShadowCursorExecute ==
    /\ call.n < MaxCalls
    /\ \E a \in PrimArgs :
          /\ shadow_cursor' = ShadowCursor_execute_action(shadow_cursor, a)
          /\ call' = Executed("shadow_cursor", a, shadow_cursor)
    /\ UNCHANGED <<buffer, viewport, modal, cursor, previous_key, repeat_action,
                   action_queue, actions, pc, status, nevents, last_action, resolved,
                   performed, pre, round_trip, executed>>

\* buffer.undo(at)
Undone(at, r) ==
    /\ buffer' = r.val
    /\ call' = [Executed("undo", Nothing, buffer) EXCEPT !.at = at, !.st = r.st,
                                                          !.err = r.err]

CallUndo ==
    /\ call.n < MaxCalls
    /\ \E at \in Positions(buffer.text) : Undone(at, undo(buffer, at))
    /\ UNCHANGED loop_vars

NextBuffer ==
    \/ CallInsert
    \/ CallDelete
    \/ CallGetText
    \/ CallReplace
    \/ CallInsertText
    \/ CallDeleteSelection
    \/ CallFindPattern
    \/ CallRfindPattern
    \/ CallViewPortExecute
    \/ CallShadowCursorExecute
    \/ CallUndo

SpecBuffer == InitBuffer /\ [][NextBuffer]_vars

\* ------------------------------------------------------------------------
\* Properties
\* ------------------------------------------------------------------------

\* A loop iteration boundary: the loop body is about to start over.
Boundary == status = "running" /\ pc = "top"

TextModes == {"Normal", "Insert", "Visual", "VisualLine"}

IsMove(a) == a.t \in {"MoveUp", "MoveDown", "MoveLeft", "MoveRight"}

\* 0 <= line <= max_line and 0 <= col <= max_col(line) for position p.
InBounds(b, p) ==
    /\ 0 <= p.line
    /\ p.line <= max_line(b)
    /\ MaxColDefined(b, p.line)
    /\ 0 <= p.col
    /\ p.col <= max_col(b, p.line)

\* C1: when a MoveUp, MoveDown, MoveLeft or MoveRight primitive has been
\* processed by perform_action (bound-checked delegation) in a text mode,
\* starting from a cursor within the bounds, the cursor is within the
\* bounds afterwards: 0 <= line <= max_line and 0 <= col <= max_col(line).
C1_MoveLeavesCursorInBounds ==
    [][(/\ pc = "perform"
        /\ actions # <<>>
        /\ IsMove(Head(actions))
        /\ modal \in TextModes
        /\ InBounds(buffer, cursor.pos)
        /\ performed' = Append(performed, Head(actions)))
       => InBounds(buffer', cursor'.pos)]_vars

\* A MoveDown(n), n > 0, has been performed for a keystroke read with the
\* cursor in bounds on the last line of the text.
C1_Witness ==
    /\ status = "running"
    /\ pc = "perform"
    /\ Len(performed) = 1
    /\ performed[1].t = "MoveDown"
    /\ performed[1].n > 0
    /\ pre.modal \in TextModes
    /\ InBounds(pre.buffer, pre.cursor.pos)
    /\ pre.cursor.pos.line = max_line(pre.buffer)
    /\ pre.cursor.pos.line > 0
    /\ InBounds(buffer, cursor.pos)

\* C2: at every loop iteration boundary the shadow cursor's line and column
\* are the line and column of the real cursor's position.
C2_ShadowEqualsCursorAtBoundary ==
    Boundary => /\ shadow_cursor.line = cursor.pos.line
                /\ shadow_cursor.col = cursor.pos.col

\* A boundary after a keystroke that moved the cursor away from (0,0).
C2_Witness ==
    /\ Boundary
    /\ nevents > 0
    /\ cursor.pos # pre.cursor.pos
    /\ cursor.pos # LC(0, 0)
    /\ shadow_cursor = [line |-> cursor.pos.line, col |-> cursor.pos.col]

\* C3: the Normal, Command and Terminal planes hold at least one line each
\* in every reachable state.
C3_EveryPlaneHasALine ==
    /\ Len(buffer.text) >= 1
    /\ Len(buffer.command) >= 1
    /\ Len(buffer.terminal) >= 1

\* C4: the primitives of a keystroke are performed in the order the
\* resolver produced them (what has been performed, followed by what is
\* still to perform, is what was enqueued for the keystroke), and at every
\* loop iteration boundary the queue is empty and all of them have been
\* performed.
C4_FifoAndDrained ==
    status = "running" =>
        /\ pc \in {"top", "read", "perform"} => action_queue = <<>>
        /\ pc \in {"top", "read"} => actions = <<>>
        /\ pc = "consume" => action_queue = Enqueued(resolved, repeat_action) /\ performed = <<>>
        /\ pc = "perform" => performed \o actions = Enqueued(resolved, repeat_action)
        /\ pc = "top" => performed = Enqueued(resolved, repeat_action)

\* A boundary after a keystroke of two primitives, performed in order.
C4_Witness ==
    /\ Boundary
    /\ Len(resolved) >= 2
    /\ resolved[1] # resolved[2]
    /\ performed = resolved
    /\ action_queue = <<>>

\* C5: after Insert mode is entered, one character typed and Escape pressed,
\* `u` leaves the Normal plane as it was before the character was typed,
\* and Ctrl-r after that leaves it as it was with the character.
C5_UndoRedoRoundTrip ==
    Boundary =>
        /\ round_trip.stage = "undone" => buffer.text = round_trip.before
        /\ round_trip.stage = "redone" => buffer.text = round_trip.after

IsMutation(a) == a.t \in {"InsertAt", "InsertLineAt", "DeleteAt", "DeleteLineAt"}

\* C6: a primitive that is performed and changes the Normal plane pushes one
\* state capsule onto the past stack, holding the content of the Normal
\* plane before the change.
C6_MutationPushesCapsule ==
    [][(/\ pc = "perform"
        /\ actions # <<>>
        /\ IsMutation(Head(actions))
        /\ performed' = Append(performed, Head(actions))
        /\ buffer'.text # buffer.text)
       => /\ Len(buffer'.past) = Len(buffer.past) + 1
          /\ Head(buffer'.past).content = buffer.text]_vars

\* C7: a character key read in Insert mode with the cursor in bounds at
\* (l, c) leaves, at the boundary, the character inserted at column c of
\* line l, the other lines as they were, and the cursor at (l, c + 1).
C7_InsertCharAtCursor ==
    (/\ Boundary
     /\ last_action.t = "InsertCharAtCursor"
     /\ pre.modal = "Insert"
     /\ InBounds(pre.buffer, pre.cursor.pos))
    => /\ buffer.text =
            VecSet(pre.buffer.text, pre.cursor.pos.line,
                   StrInsert(pre.buffer.text[pre.cursor.pos.line + 1],
                             pre.cursor.pos.col, last_action.ch))
       /\ cursor.pos = LC(pre.cursor.pos.line, pre.cursor.pos.col + 1)

\* The occurrences of the string s in the text, as positions.
Matches(text, s) ==
    UNION {{LC(l, c) : c \in {i \in 0..Len(text[l + 1]) : OccursAt(text[l + 1], s, i)}} :
           l \in 0..(Len(text) - 1)}

FirstMatchFrom(text, s, p) == {m \in Matches(text, s) : LcLeq(p, m)}

LastMatchBefore(text, s, p) == {m \in Matches(text, s) : LcLess(m, p)}

\* C8: Find(s) executed from the command line, s occurring in the Normal
\* plane at or after last_text_mode_pos, ends in Normal mode with the
\* cursor on the first such occurrence; Rfind(s) ends in Normal mode with
\* the cursor on the last occurrence before that position.
C8_FindLandsOnMatch ==
    (/\ Boundary
     /\ last_action.t = "ExecuteCommand"
     /\ IsCommandMode(pre.modal)
     /\ Len(last_action.s) >= 1)
    => /\ (/\ last_action.cmd = "Find"
           /\ FirstMatchFrom(pre.buffer.text, last_action.s,
                             pre.cursor.last_text_mode_pos) # {})
          => /\ modal = "Normal"
             /\ cursor.pos \in FirstMatchFrom(pre.buffer.text, last_action.s,
                                              pre.cursor.last_text_mode_pos)
             /\ \A m \in FirstMatchFrom(pre.buffer.text, last_action.s,
                                        pre.cursor.last_text_mode_pos) :
                    LcLeq(cursor.pos, m)
       /\ (/\ last_action.cmd = "Rfind"
           /\ LastMatchBefore(pre.buffer.text, last_action.s,
                              pre.cursor.last_text_mode_pos) # {})
          => /\ modal = "Normal"
             /\ cursor.pos \in LastMatchBefore(pre.buffer.text, last_action.s,
                                               pre.cursor.last_text_mode_pos)
             /\ \A m \in LastMatchBefore(pre.buffer.text, last_action.s,
                                         pre.cursor.last_text_mode_pos) :
                    LcLeq(m, cursor.pos)

\* `j` read in Normal mode with the cursor at (2,5) of three lines of
\* length 10, at the boundary that follows.
C9_Scenario ==
    /\ Boundary
    /\ last_action.t = "BumpDown"
    /\ pre.modal = "Normal"
    /\ Len(pre.buffer.text) = 3
    /\ \A i \in 1..3 : Len(pre.buffer.text[i]) = 10
    /\ pre.cursor.pos = LC(2, 5)

\* C9 (as amended): in three lines of length 10 with the cursor at (2,5) in
\* Normal mode, `j` leaves the cursor at (2,5): on the last line, in the
\* column it was in.
C9_DownAtLastLineStays == C9_Scenario => cursor.pos = LC(2, 5)

\* C9 (as stated): in three lines of length 10 with the cursor at (2,5) in
\* Normal mode, `j` leaves the cursor at (2,10).
C9_DownAtLastLineGoesToEol == C9_Scenario => cursor.pos = LC(2, 10)

\* The scenario, with MoveDown(1) performed and the text untouched.
C9_Witness ==
    /\ C9_Scenario
    /\ performed = <<MoveDown(1)>>
    /\ buffer.text = pre.buffer.text

\* C10: ChangeMode to Command or to a Find mode, performed in a text mode
\* with the cursor at p, sets last_text_mode_pos to p and pos to (0,0);
\* ChangeMode to a text mode, performed in one of those modes, sets pos to
\* last_text_mode_pos.
C10_ModeChangeTeleportsCursor ==
    [][(/\ pc = "perform"
        /\ actions # <<>>
        /\ Head(actions).t = "ChangeMode"
        /\ performed' = Append(performed, Head(actions)))
       => /\ (modal \in TextModes /\ IsCommandMode(Head(actions).m))
             => /\ cursor'.last_text_mode_pos = cursor.pos
                /\ cursor'.pos = LC(0, 0)
          /\ (IsCommandMode(modal) /\ Head(actions).m \in TextModes)
             => cursor'.pos = cursor.last_text_mode_pos]_vars

\* The step that reads Enter in Command or Find mode.
EnterRead ==
    /\ status = "running"
    /\ pc = "read"
    /\ IsCommandMode(modal)
    /\ nevents' = nevents + 1
    /\ last_action'.t = "ExecuteCommand"

\* C11: in Command or Find mode with the command plane holding exactly `q`,
\* Enter ends the event loop with ExitCall: nothing is enqueued or performed
\* for it, the editor is as it was, and no step follows the end of the loop.
C11_QuitEndsLoop ==
    [][/\ status = "running"
       /\ (EnterRead /\ CommandTextDefined(buffer) /\ get_command_text(buffer) = <<"q">>)
          => /\ status' = "ExitCall"
             /\ action_queue' = <<>>
             /\ performed' = <<>>
             /\ <<buffer, viewport, modal, cursor, shadow_cursor>>' =
                    <<buffer, viewport, modal, cursor, shadow_cursor>>]_vars

\* The loop has ended with ExitCall on Enter over the command text `q`.
C11_Witness ==
    /\ status = "ExitCall"
    /\ IsCommandMode(modal)
    /\ last_action.t = "ExecuteCommand"
    /\ last_action.cmd = "Exit"
    /\ get_command_text(buffer) = <<"q">>
    /\ performed = <<>>

\* The errors that report a fault in action resolution.
DiagnosticErrors == {"InvalidPosition", "InvalidRange", "InvalidInput", "InvalidLineNumber"}

\* C12: an InvalidPosition, InvalidRange, InvalidInput or InvalidLineNumber
\* error raised while resolving or performing a keystroke's primitives never
\* ends the event loop.
C12_DiagnosticErrorsKeepLoop == status \notin DiagnosticErrors

\* A search result that reports no match.
IsMiss(r) == r.st = "Err" /\ r.err = "PatternNotFound"

\* Editor::find or Editor::rfind by direction.
Search(e, direction, pat, at) ==
    IF direction = "Forward" THEN find(e, pat, at) ELSE rfind(e, pat, at)

\* A two-boundary jump whose first boundary search returned d1 misses.
JumpMissesFrom(e, direction, d1, second_boundary) ==
    \/ IsMiss(d1)
    \/ d1.st = "Ok" /\ IsMiss(Search(e, direction, PredPat(second_boundary), d1.val))

\* A two-boundary jump from editor e does not find one of its boundaries.
JumpMisses(e, direction, first_boundary, second_boundary) ==
    /\ MaxNormalColDefined(e.buffer, e.cursor.last_text_mode_pos.line)
    /\ JumpMissesFrom(e, direction,
                      Search(e, direction, PredPat(first_boundary),
                             JumpStart(e.buffer, e.cursor.last_text_mode_pos)),
                      second_boundary)

JumpIntents ==
    {"JumpToNextWord", "JumpToNextSymbol", "ReverseJumpToNextWord", "ReverseJumpToNextSymbol"}

JumpDirection(act) ==
    IF act.t \in {"JumpToNextWord", "JumpToNextSymbol"} THEN "Forward" ELSE "Backward"

\* The jump intent act, resolved from editor e, misses a boundary.
JumpIntentMisses(e, act) ==
    /\ act.t \in JumpIntents
    /\ IF act.t \in {"JumpToNextWord", "ReverseJumpToNextWord"}
       THEN JumpMisses(e, JumpDirection(act), "whitespace", "not_whitespace")
       ELSE JumpMisses(e, JumpDirection(act), "word_char", "symbol_char")

\* The find intent or the find command act, resolved from e, has no match.
FindIntentMisses(e, act) ==
    \/ act.t = "Find" /\ IsMiss(find(e, StrPat(act.s), e.cursor.pos))
    \/ act.t \in {"FindChar", "ToChar"} /\ IsMiss(find(e, StrPat(<<act.ch>>), e.cursor.pos))
    \/ act.t = "ReverseFind" /\ IsMiss(rfind(e, StrPat(act.s), e.cursor.pos))
    \/ act.t \in {"ReverseFindChar", "ReverseToChar"}
          /\ IsMiss(rfind(e, StrPat(<<act.ch>>), e.cursor.pos))

FindCommandMisses(e, act) ==
    /\ act.t = "ExecuteCommand"
    /\ \/ act.cmd = "Find" /\ IsMiss(find(e, StrPat(act.s), e.cursor.last_text_mode_pos))
       \/ act.cmd = "Rfind" /\ IsMiss(rfind(e, StrPat(act.s), e.cursor.last_text_mode_pos))

\* The keystroke being processed started a search that found no match.
SearchMissed ==
    \/ JumpIntentMisses(pre, last_action)
    \/ FindIntentMisses(pre, last_action)
    \/ FindCommandMisses(pre, last_action)

\* The iteration of the keystroke has run to its end.
IterationDone == status = "running" /\ pc = "top" /\ last_action.t # "Nothing"

\* C13: a search that finds no match, by any resolver path, is a no-op: no
\* PatternNotFound leaves the resolver, and at the end of the keystroke the
\* text and the cursor position are what they were, and a command has put
\* the mode back to Normal.
C13_SearchMissIsNoOp ==
    SearchMissed =>
        /\ status # "PatternNotFound"
        /\ IterationDone =>
              /\ buffer.text = pre.buffer.text
              /\ cursor.pos = pre.cursor.pos
              /\ last_action.t = "ExecuteCommand" => modal = "Normal"

\* The delete d has succeeded and put the plane back to what it was before
\* the recorded operation.
RestoredBy(d) == d.st = "Ok" /\ get_buffer(d.val.buffer) = call.before

\* C14: after insert(at, ch) at a valid position (l, c), delete((l, c + 1))
\* succeeds and leaves the plane as it was before the insert.
C14_DeleteUndoesInsert ==
    (call.op = "insert" /\ call.st = "Ok")
        => RestoredBy(delete(buffer, LC(call.at.line, call.at.col + 1)))

\* A character has been inserted inside a line of a plane of several lines.
C14_Witness ==
    /\ call.op = "insert"
    /\ call.st = "Ok"
    /\ Len(call.before) > 1
    /\ call.at.line > 0
    /\ call.at.col > 0
    /\ call.at.col < Len(call.before[call.at.line + 1])
    /\ get_buffer(buffer) # call.before

\* The buffer the recorded operation was applied to.
BufferBefore == set_buffer(buffer, call.before)

\* A position of the plane given by its lines.
ValidPos(lines, p) == p.line < Len(lines) /\ p.col <= Len(lines[p.line + 1])

\* insert_text(from, text, false) on what delete_selection returned (d)
\* succeeds too and gives the lines of the plane.
InsertAfterDelete(d, from, text, lines) ==
    /\ d.st = "Ok"
    /\ insert_text(d.val, from, text, FALSE).st = "Ok"
    /\ get_buffer(insert_text(d.val, from, text, FALSE).val.buffer) = lines

\* replace was applied to an in-bounds range from < to with a text.
ReplacedRange ==
    /\ call.op = "replace"
    /\ ValidPos(call.before, call.at)
    /\ ValidPos(call.before, call.to)
    /\ LcLess(call.at, call.to)
    /\ call.text # <<>>

\* C15: for in-bounds from < to and a non-empty text, replace(from, to, text)
\* leaves the plane with the content that delete_selection(from, to) followed
\* by insert_text(from, text, false) leaves.
C15_ReplaceIsDeleteThenInsert ==
    ReplacedRange =>
        /\ call.st = "Ok"
        /\ InsertAfterDelete(delete_selection(BufferBefore, call.at, call.to),
                             call.at, call.text, get_buffer(buffer))

\* C16: for a valid range from <= to, replacing the range by the text that
\* get_text(from, to) returned leaves the plane unchanged.
C16_ReplaceByOwnTextIsIdentity ==
    (call.op = "get_text" /\ call.st = "Ok")
        => /\ replace(buffer, call.at, call.to, call.out).st # "Panic"
           /\ get_buffer(replace(buffer, call.at, call.to, call.out).val) = get_buffer(buffer)

\* The step in which add_to_action_queue enqueues a single repeat-carrying
\* primitive (SetCursor carries no repeat count).
EnqueuesOneRepeatable ==
    /\ pc = "read"
    /\ pc' = "consume"
    /\ Len(resolved') = 1
    /\ HasRepeater(resolved'[1])

C18_JumpMissResolvesToNothing ==
    JumpIntentMisses(pre, last_action) =>
        /\ status = "running"
        /\ resolved = <<Nothing>>
        /\ cursor.pos = pre.cursor.pos

\* The positions of the text whose character satisfies the predicate, at or
\* after position p.
PredHitsFrom(text, name, p) ==
    {m \in UNION {{LC(l, c) : c \in 0..(Len(text[l + 1]) - 1)} : l \in 0..(Len(text) - 1)} :
        Pred(name, text[m.line + 1][m.col + 1]) /\ LcLeq(p, m)}

\* The least position of a non-empty set of positions.
LeastLC(S) == CHOOSE m \in S : \A x \in S : LcLeq(m, x)

\* The destinations of the two-boundary rule from cursor p: the first
\* position of the second predicate after the first position of the first
\* predicate at or after p + 1 (no destination when a boundary is missing).
SecondBoundaryFrom(text, name, S) == IF S = {} THEN {} ELSE PredHitsFrom(text, name, LeastLC(S))

TwoBoundaryDest(text, p, first_boundary, second_boundary) ==
    SecondBoundaryFrom(text, second_boundary,
                       PredHitsFrom(text, first_boundary, LC(p.line, p.col + 1)))

\* The destinations the rule gives for the forward jump last_action from the
\* cursor the keystroke was read at.
ForwardJumpDest ==
    IF last_action.t = "JumpToNextWord"
    THEN TwoBoundaryDest(pre.buffer.text, pre.cursor.pos, "whitespace", "not_whitespace")
    ELSE TwoBoundaryDest(pre.buffer.text, pre.cursor.pos, "word_char", "symbol_char")

\* C19: a forward word jump (and a forward symbol jump, with its predicates)
\* from cursor p resolves to SetCursor(d), d being the first position of the
\* second predicate after the first position of the first predicate at or
\* after p + 1, wherever the cursor has been moved to.
C19_ForwardJumpFromCursor ==
    (/\ status = "running"
     /\ last_action.t \in {"JumpToNextWord", "JumpToNextSymbol"}
     /\ ForwardJumpDest # {})
    => resolved = <<SetCursor(LeastLC(ForwardJumpDest))>>

\* The positions of the lines whose character satisfies the predicate.
PredHits(lines, name) == PredHitsFrom(lines, name, LC(0, 0))

\* The greatest position of a non-empty set of positions.
GreatestLC(S) == CHOOSE m \in S : \A x \in S : LcLeq(x, m)

\* What a search over S is to return: none for no position, else the given one.
Found(S, m) == IF S = {} THEN None ELSE Some(m)

\* C20: for a character predicate p over the lines of a plane, find_pattern
\* returns the lexicographically first position whose character satisfies
\* p, rfind_pattern the lexicographically last one, and both return none
\* exactly when no character satisfies p.
C20_PredicateSearchFirstAndLast ==
    /\ call.op = "find_pattern"
          => call.found = Found(PredHits(call.before, call.pred),
                                LeastLC(PredHits(call.before, call.pred)))
    /\ call.op = "rfind_pattern"
          => call.found = Found(PredHits(call.before, call.pred),
                                GreatestLC(PredHits(call.before, call.pred)))

\* The plane set_plane is to select for a mode.
PlaneOf(m) == IF m \in {"Command", "FindForwards", "FindBackwards"} THEN "Command" ELSE "Normal"

\* C21: the active plane is the Command plane in Command and Find modes and
\* the Normal plane in every text mode, and a step of the editor changes
\* the content of no plane but the one active when it is taken.
C21_PlanesIndependent ==
    [][/\ buffer.plane = PlaneOf(modal)
       /\ buffer'.plane = PlaneOf(modal')
       /\ buffer'.terminal = buffer.terminal
       /\ buffer.plane = "Normal" => buffer'.command = buffer.command
       /\ buffer.plane = "Command" => buffer'.text = buffer.text]_vars

\* A keystroke in Find mode has edited the command plane while the Normal
\* plane holds a text of its own.
C21_Witness ==
    /\ modal \in {"FindForwards", "FindBackwards"}
    /\ buffer.plane = "Command"
    /\ buffer.command # pre.buffer.command
    /\ buffer.command # << <<>> >>
    /\ buffer.text = SmallText

\* C22: insert(at, ch) succeeds for every position of the plane, and for
\* every other at (at.line at or past the line count, at.col past the end
\* of the line) returns InvalidPosition and leaves the plane unchanged.
C22_InsertChecksPosition ==
    call.op = "insert" =>
        IF ValidPos(call.before, call.at)
        THEN call.st = "Ok"
        ELSE /\ call.st = "Err"
             /\ call.err = "InvalidPosition"
             /\ get_buffer(buffer) = call.before

\* C23: delete_selection(from, to) returns InvalidRange and leaves the plane
\* unchanged whenever from > to, from = to, or an endpoint is out of bounds
\* (its line at or past the line count, its column past the end of its line).
C23_DeleteSelectionChecksRange ==
    (/\ call.op = "delete_selection"
     /\ \/ LcLeq(call.to, call.at)
        \/ ~ValidPos(call.before, call.at)
        \/ ~ValidPos(call.before, call.to))
    => /\ call.st = "Err"
       /\ call.err = "InvalidRange"
       /\ get_buffer(buffer) = call.before

\* The command a content of the command plane stands for.
CommandOf(content) ==
    IF content # <<>> /\ content[1] = "/"
    THEN [cmd |-> "Find", s |-> SubSeq(content, 2, Len(content))]
    ELSE IF content # <<>> /\ content[1] = "?"
    THEN [cmd |-> "Rfind", s |-> SubSeq(content, 2, Len(content))]
    ELSE IF content = <<"q">> THEN [cmd |-> "Exit", s |-> <<>>]
    ELSE [cmd |-> "None", s |-> <<>>]

CharJumpDest(text, latch, ch, p) ==
    CASE latch = "f" -> LeastLC(FirstMatchFrom(text, <<ch>>, p))
      [] latch = "t" -> LC(LeastLC(FirstMatchFrom(text, <<ch>>, p)).line,
                           LeastLC(FirstMatchFrom(text, <<ch>>, p)).col - 1)
      [] latch = "F" -> GreatestLC(LastMatchBefore(text, <<ch>>, p))
      [] latch = "T" -> LC(GreatestLC(LastMatchBefore(text, <<ch>>, p)).line,
                           GreatestLC(LastMatchBefore(text, <<ch>>, p)).col + 1)

\* The character ch occurs where the sequence latch, ch looks for it (with a
\* column before it for `t`).
CharJumpHasMatch(text, latch, ch, p) ==
    CASE latch = "f" -> FirstMatchFrom(text, <<ch>>, p) # {}
      [] latch = "t" -> /\ FirstMatchFrom(text, <<ch>>, p) # {}
                        /\ LeastLC(FirstMatchFrom(text, <<ch>>, p)).col > 0
      [] OTHER -> LastMatchBefore(text, <<ch>>, p) # {}

\* A two-key character search was read in Normal mode and its keystroke has
\* run to its end.
CharJumpDone ==
    /\ IterationDone
    /\ pre.modal = "Normal"
    /\ pre.latch \in {"f", "t", "F", "T"}
    /\ last_action.t # "Nothing"
    /\ CharJumpHasMatch(pre.buffer.text, pre.latch, last_action.ch, pre.cursor.pos)

\* C25: in Normal mode `f` then c ends on the next occurrence of c and `t`
\* then c one column before it; `F` then c ends on the previous occurrence
\* of c and `T` then c one column after it.
C25_ToCharStopsOneShort ==
    CharJumpDone =>
        cursor.pos = CharJumpDest(pre.buffer.text, pre.latch, last_action.ch, pre.cursor.pos)

\* `r` then a character was read in Normal mode with the cursor on a
\* character of the text.
ReplaceRead ==
    /\ last_action.t = "Replace"
    /\ pre.modal = "Normal"
    /\ pre.cursor.pos.line < Len(pre.buffer.text)
    /\ pre.cursor.pos.col < Len(pre.buffer.text[pre.cursor.pos.line + 1])

\* The text with the character at position p replaced by ch.
WithCharAt(text, p, ch) == [text EXCEPT ![p.line + 1][p.col + 1] = ch]

\* C26: `r` then ch with the cursor on a character at (l, c) replaces
\* exactly that character: the keystroke runs to its end, the text is the
\* one before with ch at (l, c), and the cursor is still at (l, c).
C26_ReplaceCharUnderCursor ==
    ReplaceRead =>
        /\ status = "running"
        /\ IterationDone =>
              /\ buffer.text = WithCharAt(pre.buffer.text, pre.cursor.pos, last_action.ch)
              /\ cursor.pos = pre.cursor.pos

\* `u` or Ctrl-r was read in Normal mode with nothing to undo or redo.
UndoRedoRead ==
    /\ last_action.t \in {"Undo", "Redo"}
    /\ pre.modal = "Normal"
    /\ Len(pre.buffer.past) = 0
    /\ Len(pre.buffer.future) = 0

\* r is the NowhereToGo error and hands back the buffer b as it was.
NowhereToGo(r, b) == r.st = "Err" /\ r.err = "NowhereToGo" /\ r.val = b

\* C27: undo with an empty past stack and redo with an empty future stack
\* return NowhereToGo and leave the text and both stacks unchanged; `u` or
\* Ctrl-r pressed in that state leaves the buffer, the cursor and the mode
\* unchanged and the event loop running.
C27_NothingToUndoIsHarmless ==
    /\ Len(buffer.past) = 0 => NowhereToGo(undo(buffer, cursor.pos), buffer)
    /\ Len(buffer.future) = 0 => NowhereToGo(redo(buffer, cursor.pos), buffer)
    /\ UndoRedoRead =>
          /\ status = "running"
          /\ IterationDone =>
                /\ buffer = pre.buffer
                /\ cursor = pre.cursor
                /\ modal = pre.modal

C27_Witness ==
    /\ UndoRedoRead
    /\ IterationDone
    /\ last_action.t = "Undo"
    /\ pre.buffer.text \notin InitTexts

\* The components in the order delegate_action calls them (no extension is
\* registered).
DelegationOrder == <<"buffer", "viewport", "cursor", "shadow">>

\* The errors the buffer's execute_action returns (insert, delete_selection
\* and verify_lazy_values).
BufferErrors == {"InvalidRange", "InvalidPosition", "ProgrammingBug"}

\* The execution at place i of the history is the buffer's, and the three
\* after it are the viewport's, the cursor's and the shadow cursor's.
FullDelegationAt(i) ==
    /\ i + 3 <= Len(executed)
    /\ SubSeq(executed, i, i + 3) = DelegationOrder

\* C28: whenever a primitive is delegated, the buffer, the viewport, the
\* cursor and the shadow cursor execute it in that order, and an error
\* returned by a component stops the ones after it: an execution by the
\* buffer is followed by the three others, or it is the last one and the
\* event loop has ended with its error; the viewport executes only right
\* after the buffer; and when the loop has ended with an error of the
\* buffer's, the buffer's execution is the last one.
C28_DelegationInFixedOrder ==
    /\ \A i \in 1..Len(executed) :
          /\ executed[i] = "buffer" =>
                \/ FullDelegationAt(i)
                \/ i = Len(executed) /\ status # "running"
          /\ executed[i] = "viewport" => i > 1 /\ executed[i - 1] = "buffer"
    /\ status \in BufferErrors =>
          /\ executed # <<>>
          /\ executed[Len(executed)] = "buffer"

C28_Witness ==
    /\ executed # <<>>
    /\ executed[Len(executed)] = "buffer"
    /\ status = "InvalidRange"

\* The loop is about to delegate a primitive that was enqueued with an
\* unevaluated lazy position.
LazyDelegated ==
    /\ status = "running"
    /\ pc = "perform"
    /\ actions # <<>>
    /\ Head(actions).t \in {"InsertAt", "DeleteAt", "InsertLineAt", "DeleteLineAt"}
    /\ ~Head(actions).lazy.ev

\* The step leaves the buffer as executing primitive a at position lc does,
\* and ends the loop exactly when that execution fails.
ActsAt(a, lc, r) ==
    /\ buffer' = r.val
    /\ status' = IF r.st = "Ok" THEN "running" ELSE EndOf(r)

ExecutedAt(a, lc) ==
    ActsAt(a, lc, Buffer_execute_action(buffer, [a EXCEPT !.lazy = LazyWith(lc)]))

MoveRead ==
    /\ pre.modal = "Normal"
    /\ Len(resolved) = 1
    /\ resolved[1].t \in {"MoveUp", "MoveDown", "MoveLeft", "MoveRight"}
    /\ ValidPos(pre.buffer.text, pre.cursor.pos)

\* Where primitive a takes a cursor at p of buffer b when it is clamped to
\* the text: the line for a vertical move, line and column for a horizontal
\* one.
ClampedLine(b, p, a) ==
    CASE a.t = "MoveDown" -> Min(p.line + a.n, max_line(b))
      [] a.t = "MoveUp" -> IF p.line >= a.n THEN p.line - a.n ELSE 0
      [] OTHER -> p.line

ClampedCol(b, p, a) ==
    CASE a.t = "MoveRight" -> Min(p.col + a.n, max_col(b, p.line))
      [] a.t = "MoveLeft" -> IF p.col >= a.n THEN p.col - a.n ELSE 0
      [] OTHER -> p.col

\* C30: from an in-bounds cursor (l, c) in Normal mode MoveDown(n) ends on
\* line min(l + n, max_line), MoveUp(n) on line max(l - n, 0), MoveRight(n)
\* on column min(c + n, max_col(l)), MoveLeft(n) on column max(c - n, 0), and
\* a horizontal move leaves the line unchanged.
C30_MovesClampExactly ==
    MoveRead =>
        /\ status = "running"
        /\ IterationDone =>
              /\ cursor.pos.line = ClampedLine(pre.buffer, pre.cursor.pos, resolved[1])
              /\ resolved[1].t \in {"MoveLeft", "MoveRight"} =>
                    cursor.pos.col = ClampedCol(pre.buffer, pre.cursor.pos, resolved[1])

\* The borders of viewport v are those of v0 moved down by d lines.
BordersMoved(v, v0, d) ==
    /\ v.top_border = v0.top_border + d
    /\ v.bottom_border = v0.bottom_border + d

\* C31: the viewport executing MoveUp(n) lowers both borders by
\* min(n, top_border), executing MoveDown(n) raises both by n, and executing
\* any other primitive leaves both unchanged.
C31_ViewportScrolls ==
    call.op = "viewport" =>
        CASE call.prim.t = "MoveUp" ->
                BordersMoved(viewport, call.before,
                             0 - Min(call.prim.n, call.before.top_border))
          [] call.prim.t = "MoveDown" -> BordersMoved(viewport, call.before, call.prim.n)
          [] OTHER -> BordersMoved(viewport, call.before, 0)

\* The texts held by the capsules of a stack, newest first.
Contents(stack) == [i \in 1..Len(stack) |-> stack[i].content]

\* undo was applied to a buffer with a non-empty past stack.
UndoApplied == call.op = "undo" /\ Len(call.before.past) > 0

\* The undo installed the newest past capsule and pushed the text it
\* replaced onto future.
UndoMoved ==
    /\ call.st = "Ok"
    /\ buffer.text = Head(call.before.past).content
    /\ buffer.past = Tail(call.before.past)
    /\ Head(buffer.future) = StateCapsule(call.before.text, call.at)

\* r, what a redo returned, has the text and the contents of both stacks of
\* the buffer the undo was applied to.
RedoRestored(r) ==
    /\ r.st = "Ok"
    /\ r.val.text = call.before.text
    /\ Contents(r.val.past) = Contents(call.before.past)
    /\ Contents(r.val.future) = Contents(call.before.future)

RedoRestores == \A at \in Positions(buffer.text) : RedoRestored(redo(buffer, at))

ShadowMirror(sc, a) ==
    CASE a.t = "MoveUp" -> [sc EXCEPT !.line = sc.line - a.n]
      [] a.t = "MoveDown" -> [sc EXCEPT !.line = sc.line + a.n]
      [] a.t = "MoveLeft" -> [sc EXCEPT !.col = sc.col - a.n]
      [] a.t = "MoveRight" -> [sc EXCEPT !.col = sc.col + a.n]
      [] a.t = "SetCursor" -> [line |-> a.lc.line, col |-> a.lc.col]
      [] OTHER -> sc

\* C33: the shadow cursor executing MoveUp(n) decreases its line by n,
\* MoveDown(n) increases its line by n, MoveLeft(n) decreases its column by
\* n, MoveRight(n) increases its column by n, SetCursor(lc) sets it to lc, and
\* any other primitive leaves it unchanged.
C33_ShadowMirrorsMoves ==
    call.op = "shadow_cursor" => shadow_cursor = ShadowMirror(call.before, call.prim)

\* The loop is about to hand a Move primitive to bound-checked delegation.
MoveEntersBoundCheck ==
    /\ status = "running"
    /\ pc = "perform"
    /\ actions # <<>>
    /\ Head(actions).t \in {"MoveUp", "MoveDown", "MoveLeft", "MoveRight"}

IterationBoundary == status = "running" /\ pc = "top"

\* The cursor plane of a mode.
CursorPlaneOf(m) == IF IsCommandMode(m) THEN "CommandBar" ELSE "Text"

ViewportAgrees == IterationBoundary => viewport.mode = modal

BufferPlaneAgrees == IterationBoundary => buffer.plane = PlaneOf(modal)

CursorPlaneAgrees == IterationBoundary => cursor.plane = CursorPlaneOf(modal)

\* The mode differs from the one the last key event found only when a
\* ChangeMode to it was performed since.
ModeChangesByChangeMode ==
    status = "running" /\ modal # pre.modal =>
        \E i \in 1..Len(performed) : performed[i] = ChangeMode(modal)

\* C35: at every iteration boundary the editor's mode, the viewport's mode,
\* the buffer's active plane and the cursor's plane agree, and the mode
\* changes only through a performed ChangeMode primitive.
C35_ModeAgreement ==
    /\ ViewportAgrees
    /\ BufferPlaneAgrees
    /\ CursorPlaneAgrees
    /\ ModeChangesByChangeMode

\* C36: at every iteration boundary in a text mode the real cursor is inside
\* the Normal plane: its line is at most max_line and exists, and its column
\* is at most max_col of its line.
C36_CursorInsideText ==
    IterationBoundary /\ ~IsCommandMode(modal) =>
        /\ cursor.pos.line <= max_line(buffer)
        /\ MaxColDefined(buffer, cursor.pos.line)
        /\ cursor.pos.col <= max_col(buffer, cursor.pos.line)

\* The step reads a key event.
KeyRead == pc = "read" /\ nevents' = nevents + 1

\* The step hands the key it reads to the mode's interpreter, whose intent
\* is enqueued (or whose error ends the loop): the key is not dropped.
KeyInterpreted == pc' = "consume" \/ status' # "running"

\* The keystroke that has ended was an Escape pressed outside Normal mode
\* (the intent ChangeMode(Normal)).
EscapeDone ==
    /\ IterationDone
    /\ pre.modal # "Normal"
    /\ last_action = ActChangeMode("Normal")

\* C37: in every mode other than Normal a key that is read is interpreted,
\* no mode ignoring every key, and the Escape key ends with the editor in
\* Normal mode.
C37_EscapeReachesNormal ==
    [][/\ KeyRead /\ modal # "Normal" => KeyInterpreted
       /\ EscapeDone' => modal' = "Normal"]_vars

\* C38: at every iteration boundary in Command or Find mode the Command
\* plane has exactly one line, the cursor is on line 0, and its column is at
\* most the length of the command text.
C38_CursorOnCommandLine ==
    IterationBoundary /\ IsCommandMode(modal) =>
        /\ Len(buffer.command) = 1
        /\ cursor.pos.line = 0
        /\ cursor.pos.col <= Len(buffer.command[1])

\* C39: no component receives an InsertAt, DeleteAt, InsertLineAt or
\* DeleteLineAt primitive with an unevaluated lazy position: the loop never
\* ends with ProgrammingBug, and the primitive handed to the components when
\* one enqueued with an unevaluated lazy is delegated carries a position, so
\* that no step ends in the panic of clone_inner.
C39_NoUnevaluatedLazyDelegated ==
    /\ status # "ProgrammingBug"
    /\ LazyDelegated => compute_lazy_values(Ed, Head(actions)).lazy.ev

C39_Witness ==
    /\ status = "running"
    /\ Len(performed) = 2
    /\ performed[1].t = "DeleteAt"
    /\ performed[2].t = "InsertAt"
    /\ ~performed[2].lazy.ev

\* The resolver has returned primitives for a key event that found the
\* cursor inside the Normal plane in a text mode.
ResolvedInBounds ==
    /\ ~IsCommandMode(pre.modal)
    /\ ValidPos(pre.buffer.text, pre.cursor.pos)

\* C40: every SetCursor(d) the resolver emits from an in-bounds cursor
\* targets a position inside the Normal plane: d.line <= max_line and
\* d.col <= max_col(d.line).
C40_SetCursorTargetsInBounds ==
    ResolvedInBounds =>
        \A i \in 1..Len(resolved) :
            resolved[i].t = "SetCursor" => ValidPos(pre.buffer.text, resolved[i].lc)

C40_Witness ==
    /\ ResolvedInBounds
    /\ IterationDone
    /\ last_action.t = "JumpToNextWord"
    /\ Len(resolved) = 1
    /\ resolved[1].t = "SetCursor"
    /\ cursor.pos = resolved[1].lc
    /\ cursor.pos # pre.cursor.pos

============================================================================
